---- MODULE Spec2Model ----
(***************************************************************************)
(* A model of the bfe request pipeline: the callback dispatcher            *)
(* (bfe_module.HandlerList), ReverseProxy.ServeHTTP, clusterInvoke and     *)
(* FinishReq.                                                              *)
(*                                                                         *)
(* Two groups of variables:                                                *)
(*   - one HandlerList object (h_type, handlers) and the outcome of the    *)
(*     last Filter* call made on it;                                       *)
(*   - one request travelling through ServeHTTP / clusterInvoke /          *)
(*     FinishReq, with the position of the handler in pc.                  *)
(***************************************************************************)
EXTENDS Integers, Sequences, FiniteSets, TLC

\* ------------------------------------------------------------------ bounds
\* longest handler list built by the Add*Filter actions
MaxFilters == 2
\* largest small value of the cluster's RetryMax / CrossRetry
MaxRetryConf == 1

\* ------------------------------------------------------- program constants
HANDLERS_ACCEPT == 0
HANDLERS_REQUEST == 1
HANDLERS_FORWARD == 2
HANDLERS_RESPONSE == 3
HANDLERS_FINISH == 4

BFE_HANDLER_FINISH == 0
BFE_HANDLER_GOON == 1
BFE_HANDLER_REDIRECT == 2
BFE_HANDLER_RESPONSE == 3
BFE_HANDLER_CLOSE == 4

RetryConnect == 0
RetryGet == 1

\* the limit of the retry loop of clusterInvoke
LoopLimit == 20

HandlerTypes ==
    {HANDLERS_ACCEPT, HANDLERS_REQUEST, HANDLERS_FORWARD, HANDLERS_RESPONSE,
     HANDLERS_FINISH}

Verdicts ==
    {BFE_HANDLER_FINISH, BFE_HANDLER_GOON, BFE_HANDLER_REDIRECT,
     BFE_HANDLER_RESPONSE, BFE_HANDLER_CLOSE}

VARIABLES
    \* ---- HandlerList
    h_type,        \* HandlerList.h_type
    handlers,      \* HandlerList.handlers: sequence of [kind, ret]; kind is the
                   \* filter type the entry was wrapped in by Add*Filter, ret
                   \* the verdict its callback returns
    hlCalled,      \* <<kind>> of the last Filter* method called on the list as it
                   \* is, <<>> if none
    hlInvoked,     \* indices of the entries whose callback that call invoked, in order
    hlRetVal,      \* retVal returned by that call
    hlRes,         \* res returned by FilterRequest: index of the entry that
                   \* produced it, 0 for nil
    \* ---- cluster configuration and request
    retryLevel,    \* cluster.RetryLevel()
    retryMax,      \* cluster RetryMax
    crossRetry,    \* cluster CrossRetry
    method,        \* outreq.Method
    body,          \* kind of outreq.Body
    \* ---- ServeHTTP / clusterInvoke / FinishReq
    pc,            \* position of the handler
    action,        \* ServeHTTP's (and clusterInvoke's) result action
    res,           \* the response variable res
    err,           \* the error variable err of clusterInvoke
    isRedirect,
    httpResponse,  \* basicReq.HttpResponse
    errCode,       \* basicReq.ErrCode
    errMsg,        \* basicReq.ErrMsg: "" or a message
    routeErr,      \* the routing failure of the request, if any
    i,             \* loop variable of clusterInvoke
    retryTime,     \* request.RetryTime
    transBackend,  \* request.Trans.Backend
    reqBackend,    \* request.Backend: the backend whose sub-cluster, name,
                   \* address and port are recorded there
    stat,          \* request.Stat: BackendStart and BackendFirst; a time is
                   \* the number of RoundTrip calls when it is read, 0 the
                   \* zero time
    netConn,       \* per backend: AddConnNum calls minus DecConnNum calls of this request
    panicked,      \* ServeHTTP ended in a run-time panic
    finishAction,  \* FinishReq's result action
    \* ---- observation of the run (history)
    attempts,      \* RoundTrip calls
    balanceCalls,  \* Balance calls
    forwardCalls,  \* FilterForward dispatches
    lastErr,       \* error of the last failed RoundTrip
    verdict,       \* for each phase ServeHTTP has dispatched: the verdict returned
    forwardFinish, \* the HANDLE_FORWARD callbacks have returned FINISH
    done,          \* the pipeline events that have occurred
    ev,            \* the last pipeline event
    onRespArg,     \* the response handed to the HANDLE_READ_BACKEND callbacks
    written,       \* what has been written to the client
    onFailCalls,   \* per backend: OnFail calls made for the last attempt
    onSuccessCalls \* per backend: OnSuccess calls made for the last attempt

hlVars == <<h_type, handlers, hlCalled, hlInvoked, hlRetVal, hlRes>>
confVars == <<retryLevel, retryMax, crossRetry, method, body>>
reqVars ==
    <<pc, action, res, err, isRedirect, httpResponse, errCode, errMsg, routeErr, i,
      retryTime, transBackend, reqBackend, stat, netConn, panicked,
      finishAction>>
histVars ==
    <<attempts, balanceCalls, forwardCalls, lastErr, verdict, forwardFinish,
      done, ev, onRespArg, written, onFailCalls, onSuccessCalls>>

VARIABLES
    \* ---- HostTable lookups (bfe_route)
    rtTable,       \* the HostTable: hostTrie, vipTable, defaultProduct,
                   \* productRouteTable
    rtReq,         \* the request: HttpRequest.Host, Session.Vip, and the rule
                   \* conditions it matches
    rtRoute,       \* req.Route: Product, HostTag, ClusterName, Error
    rtRet,         \* the RequestRoute Lookup returned
    rtErr,         \* the error LookupHostTagAndProduct or LookupCluster returned
    rtPc,          \* the lookups made on the request
    rtConsulted,   \* the tables LookupHostTagAndProduct has looked into
    rtEvaluated,   \* indices of the rules whose Cond.Match LookupCluster called
    \* ---- reload of the routing table
    snap,          \* the HostTable objects: per object the version of the
                   \* configuration each of its three parts was taken from
    cur,           \* the HostTable the server has published
    upd,           \* the reload in progress: its position and its HostTable
    rd             \* per reader: its position, the HostTable it holds and the
                   \* versions it has read

VARIABLES
    \* ---- IPItems (bfe_util/ipdict)
    ipItems,       \* IPItems.items: sequence of [startIP, endIP]
    ipInserted,    \* the pairs InsertPair was called with, in order
    ipLast,        \* the last operation: "new", "insert" or "sort"
    ipBefore,      \* items as they were when the last Sort began
    ipTwice,       \* the last two operations were both Sort
    ipSorts        \* number of Sort calls

ipVars == <<ipItems, ipInserted, ipLast, ipBefore, ipTwice, ipSorts>>

VARIABLES
    \* ---- one HTTP/2 server connection (bfe_http2)
    h2Streams,     \* the streams map: stream ID -> state, for the streams in it
    h2MaxStreamID, \* the highest peer-initiated stream ID seen
    h2Accepted,    \* the IDs of the streams the server accepted, in order
    h2Handler,     \* per stream: "none", "running", "returned", "done", or
                   \* blocked in "read", in "write" or in "notify"
    h2BodyEOF,     \* per stream: a read of the request bodies returns EOF
    h2Hist,        \* per stream: the states it has been in, in order
    h2Last,        \* the last frame received or step taken, with the state before it
    h2GoAway,      \* "" or the code of the GOAWAY the connection was closed with
    h2Rst,         \* per stream: "" or the code of the last RST_STREAM sent
    h2Recv,        \* number of frames received
    h2Block,       \* 0, or the stream whose header block is in progress
    h2LastStreamID,\* the last-stream-id of the GOAWAY sent
    h2Send,        \* outbound flow control: the send windows, the credit (the
                   \* WINDOW_UPDATE increments received less the DATA bytes
                   \* sent), what was sent, what handlers still want to write
    h2In,          \* inbound flow control: the receive windows, the bytes
                   \* received and unread, the WINDOW_UPDATE increments sent
    h2Body         \* per stream: the request bodies as its handler sees it

VARIABLES
    \* ---- checks made when configuration is loaded
    condExpr,      \* the condition expression handed to the semantic check
    condErrs,      \* the errors the check has added, in order
    condChecked,   \* the check has run
    clConf,        \* the cluster configuration handed to BfeClusterConfCheck,
                   \* with the defaults the check has filled in
    clErr,         \* the error of the last check: <<>> is nil
    clPrev,        \* the configuration as it was before the last check
    clRuns         \* the number of checks run on the configuration

VARIABLES
    \* ---- the call of a function that keeps no state
    fnArgs,        \* the arguments of the call
    fnRet          \* what it returned: <<>> before it has returned

VARIABLES
    \* ---- ReverseProxy: the cluster-to-transport map and the goroutines using it
    tsMu,          \* ReverseProxy.tsMu: w the goroutine holding the write lock
                   \* ("" none), r the goroutines holding the read lock
    transports,    \* ReverseProxy.transports: cluster name -> transport
    tsProc,        \* per goroutine: where it is in getTransport or
                   \* setTransports, its arguments and locals, and acc, its
                   \* access to the map in progress (none, read, write)
    tsHist,        \* next: the number of the next transport created; got: per
                   \* cluster name the transports getTransport has returned
                   \* since the last setTransports; calls: the calls started
    tsFatal        \* the run-time has ended the program on a concurrent map access

loadVars ==
    <<condExpr, condErrs, condChecked, clConf, clErr, clPrev, clRuns>>
fnVars == <<fnArgs, fnRet>>
tsVars == <<tsMu, transports, tsProc, tsHist, tsFatal>>
moreVars == <<fnVars, tsVars>>
h2Vars ==
    <<h2Streams, h2MaxStreamID, h2Accepted, h2Handler, h2BodyEOF, h2Hist,
      h2Last, h2GoAway, h2Rst, h2Recv, h2Block, h2LastStreamID, h2Send,
      h2In, h2Body>>
routeVars ==
    <<rtTable, rtReq, rtRoute, rtRet, rtErr, rtPc, rtConsulted, rtEvaluated>>
reloadVars == <<snap, cur, upd, rd>>
pipelineVars == <<confVars, reqVars, histVars>>
sideVars == <<routeVars, reloadVars, ipVars, h2Vars, loadVars, moreVars>>
vars ==
    <<hlVars, confVars, reqVars, histVars, routeVars, reloadVars, ipVars, h2Vars,
      loadVars, moreVars>>

\* =================================================================
\* HandlerList (bfe_module)
\* =================================================================

\* a filter's verdict ends the walk
StopsLoopOnlyFinish(retVal) == retVal = BFE_HANDLER_FINISH

StopsLoop(retVal) == retVal # BFE_HANDLER_GOON

\* The LOOP of a Filter* method of kind k over hs from element e on; acc is
\* what the call has so far: the entries invoked, retVal and res.  An entry
\* of another filter type ends the walk (the default branch).
RECURSIVE FilterLoop(_, _, _, _)
FilterLoop(k, hs, e, acc) ==
    IF e > Len(hs)
    THEN acc
    ELSE IF hs[e].kind = k
         THEN LET a == [invoked |-> Append(acc.invoked, e),
                        retVal  |-> hs[e].ret,
                        res     |-> e]
              IN  IF StopsLoop(a.retVal) THEN a ELSE FilterLoop(k, hs, e + 1, a)
         ELSE acc

FilterStart == [invoked |-> <<>>, retVal |-> BFE_HANDLER_GOON, res |-> 0]

\* the outcome of a Filter* call: only FilterRequest returns a response
FilterCall(k) ==
    LET r == FilterLoop(k, handlers, 1, FilterStart)
    IN  /\ hlCalled' = <<k>>
        /\ hlInvoked' = r.invoked
        /\ hlRetVal' = r.retVal
        /\ hlRes' = IF k = HANDLERS_REQUEST THEN r.res ELSE 0
        /\ UNCHANGED <<h_type, handlers>>

FilterAccept == FilterCall(HANDLERS_ACCEPT)
FilterRequest == FilterCall(HANDLERS_REQUEST)
FilterForward == FilterCall(HANDLERS_FORWARD)
FilterResponse == FilterCall(HANDLERS_RESPONSE)
FilterFinish == FilterCall(HANDLERS_FINISH)

\* handlers.PushBack(New<kind>Filter(callback)); the callback returns ret.
\* (A value of the wrong function type is refused with an error and changes
\* nothing.)  The outcome of an earlier call does not outlive the change.
PushBack(k, ret) ==
    /\ Len(handlers) < MaxFilters
    /\ handlers' = Append(handlers, [kind |-> k, ret |-> ret])
    /\ hlCalled' = <<>>
    /\ hlInvoked' = <<>>
    /\ hlRetVal' = BFE_HANDLER_GOON
    /\ hlRes' = 0
    /\ UNCHANGED h_type

AddAcceptFilter == \E ret \in Verdicts : PushBack(HANDLERS_ACCEPT, ret)
AddRequestFilter == \E ret \in Verdicts : PushBack(HANDLERS_REQUEST, ret)
AddForwardFilter == \E ret \in Verdicts : PushBack(HANDLERS_FORWARD, ret)
AddResponseFilter == \E ret \in Verdicts : PushBack(HANDLERS_RESPONSE, ret)
AddFinishFilter == \E ret \in Verdicts : PushBack(HANDLERS_FINISH, ret)

NewHandlerList ==
    \E t \in HandlerTypes :
        /\ h_type' = t
        /\ handlers' = <<>>
        /\ hlCalled' = <<>>
        /\ hlInvoked' = <<>>
        /\ hlRetVal' = BFE_HANDLER_GOON
        /\ hlRes' = 0

InitHL ==
    /\ h_type = HANDLERS_ACCEPT
    /\ handlers = <<>>
    /\ hlCalled = <<>>
    /\ hlInvoked = <<>>
    /\ hlRetVal = BFE_HANDLER_GOON
    /\ hlRes = 0

NextHL ==
    /\ \/ NewHandlerList
       \/ AddAcceptFilter
       \/ AddRequestFilter
       \/ AddForwardFilter
       \/ AddResponseFilter
       \/ AddFinishFilter
       \/ FilterAccept
       \/ FilterRequest
       \/ FilterForward
       \/ FilterResponse
       \/ FilterFinish
    /\ UNCHANGED <<confVars, reqVars, histVars, sideVars>>

\* =================================================================
\* HostTable (bfe_route)
\* =================================================================

\* most entries of conf.HostMap
MaxHosts == 1
\* longest rule list of a product
MaxRules == 2

\* A string is a sequence of characters.
ConfHosts == {<<"a">>, <<"A">>, <<"b">>, <<"a", ".">>, <<"a", ":", "8">>}
ReqHosts == {<<>>, <<"a">>, <<"A">>, <<"a", ".">>, <<"a", ":", "8">>, <<".", "b">>}
Tags == {"t1", "t2"}
\* req.Session.Vip: <<>> for nil, else <<ip>>; an IPv4 address comes in its
\* 4-byte or its 16-byte form
Vips ==
    {<<>>, <<[addr |-> "v1", len |-> 4]>>, <<[addr |-> "v1", len |-> 16]>>,
     <<[addr |-> "v2", len |-> 4]>>}
\* the conditions of rules; a request matches a set of them
Conds == {"c1", "c2"}
ClusterNames == {"", "ca", "cb"}

\* strings.ToLower
ToLower(s) == [k \in 1 .. Len(s) |-> IF s[k] = "A" THEN "a" ELSE s[k]]

\* strings.Split(s, sep)
RECURSIVE SplitFrom(_, _, _, _, _)
SplitFrom(s, sep, k, piece, acc) ==
    IF k > Len(s)
    THEN Append(acc, piece)
    ELSE IF s[k] = sep
         THEN SplitFrom(s, sep, k + 1, <<>>, Append(acc, piece))
         ELSE SplitFrom(s, sep, k + 1, Append(piece, s[k]), acc)

Split(s, sep) == SplitFrom(s, sep, 1, <<>>, <<>>)

hostnameStrip(hostname) == Split(hostname, ":")[1]

reverseFqdnHost(host) ==
    LET r == [k \in 1 .. Len(host) |-> host[Len(host) + 1 - k]]
    IN  IF Len(r) > 0 /\ r[1] = "." THEN SubSeq(r, 2, Len(r)) ELSE r

\* net.IP.String(): both forms of an IPv4 address print alike
VipString(vip) == vip[1].addr

\* m[k] of a Go map with string values: "" for a missing key
MapGet(m, k) == IF k \in DOMAIN m THEN m[k] ELSE ""

\* route{}
EmptyRoute == [product |-> "", tag |-> ""]

\* the key under which buildHostRoute stores a host of the configuration
BuildKey(host) == Split(reverseFqdnHost(ToLower(host)), ".")

\* buildHostRoute(conf): the tries it can return (hosts that come to the same
\* key overwrite one another in the order of the map iteration)
buildHostRoute(conf) ==
    LET keys == {BuildKey(h) : h \in DOMAIN conf.HostMap}
        RouteOf(h) == [product |-> MapGet(conf.HostTagMap, conf.HostMap[h]),
                       tag |-> conf.HostMap[h]]
        routes == {RouteOf(h) : h \in DOMAIN conf.HostMap}
    IN  {m \in [keys -> routes] :
            \A k \in keys :
                \E h \in DOMAIN conf.HostMap : BuildKey(h) = k /\ m[k] = RouteOf(h)}

\* newHostTable(): every field has its zero value
ZeroTable ==
    [hostTrie |-> <<>>, vipTable |-> <<>>, defaultProduct |-> "",
     productRouteTable |-> <<>>]

\* HostTable.Update on a table: updateHostTable, updateVipTable,
\* updateRouteTable; the tables it can result in
Update(hostConf, vipConf, routeConf) ==
    {[hostTrie |-> <<m>>, vipTable |-> vipConf.VipMap,
      defaultProduct |-> hostConf.DefaultProduct,
      productRouteTable |-> routeConf.RuleMap] : m \in buildHostRoute(hostConf)}

\* hostTrie.Get of an exact key
findHostRoute(t, host) ==
    IF t.hostTrie = <<>>
    THEN [route |-> EmptyRoute, err |-> "ErrNoProduct"]
    ELSE LET key == Split(reverseFqdnHost(hostnameStrip(ToLower(host))), ".")
         IN  IF key \in DOMAIN t.hostTrie[1]
             THEN [route |-> t.hostTrie[1][key], err |-> "nil"]
             ELSE [route |-> EmptyRoute, err |-> "ErrNoProduct"]

findVipRoute(t, vip) ==
    IF Cardinality(DOMAIN t.vipTable) = 0
    THEN [route |-> EmptyRoute, err |-> "ErrNoProduct"]
    ELSE IF vip \in DOMAIN t.vipTable
         THEN [route |-> [product |-> t.vipTable[vip], tag |-> ""], err |-> "nil"]
         ELSE [route |-> EmptyRoute, err |-> "ErrNoProduct"]

\* if failed, use default product
UseDefaultAlways(e, defaultProduct) == defaultProduct # ""

UseDefault(e, defaultProduct) == e # "nil" /\ defaultProduct # ""

\* LookupHostTagAndProduct: the route found, the error, the tables looked into
ProductLookup(t, req) ==
    LET h == findHostRoute(t, req.host)
        tryVip == h.err # "nil" /\ req.vip # <<>>
        v == IF tryVip THEN findVipRoute(t, VipString(req.vip)) ELSE h
        d == IF UseDefault(v.err, t.defaultProduct)
             THEN [route |-> [product |-> t.defaultProduct, tag |-> ""], err |-> "nil"]
             ELSE v
    IN  [route |-> d.route, err |-> d.err,
         consulted |-> {"hostTrie"}
                       \cup (IF tryVip THEN {"vipTable"} ELSE {})
                       \cup (IF v.err # "nil" THEN {"defaultProduct"} ELSE {})]

\* the loop over the rules ends at a match
StopNever(matched) == FALSE

StopAtMatch(matched) == matched

\* matching route rules: from rule k on; the cluster name and the rules
\* whose condition was evaluated
RECURSIVE MatchRules(_, _, _, _)
MatchRules(rules, req, k, acc) ==
    IF k > Len(rules)
    THEN acc
    ELSE LET matched == rules[k].cond \in req.conds
             a == [clusterName |-> IF matched THEN rules[k].cluster
                                   ELSE acc.clusterName,
                   evaluated |-> Append(acc.evaluated, k)]
         IN  IF StopAtMatch(matched) THEN a ELSE MatchRules(rules, req, k + 1, a)

\* LookupCluster for a product: ClusterName, Error and the rules evaluated
ClusterLookup(t, product, req) ==
    IF product \notin DOMAIN t.productRouteTable
    THEN [clusterName |-> "", err |-> "ErrNoProductRule", evaluated |-> <<>>]
    ELSE LET r == MatchRules(t.productRouteTable[product], req, 1,
                             [clusterName |-> "", evaluated |-> <<>>])
         IN  IF r.clusterName = ""
             THEN [clusterName |-> "", err |-> "ErrNoMatchRule",
                   evaluated |-> r.evaluated]
             ELSE [clusterName |-> r.clusterName, err |-> "nil",
                   evaluated |-> r.evaluated]

LookupHostTagAndProduct ==
    /\ rtPc = "start"
    /\ LET r == ProductLookup(rtTable, rtReq)
       IN  /\ rtRoute' = [rtRoute EXCEPT !.HostTag = r.route.tag,
                                         !.Product = r.route.product,
                                         !.Error = r.err]
           /\ rtErr' = r.err
           /\ rtConsulted' = r.consulted
    /\ rtPc' = "product"
    /\ UNCHANGED <<rtTable, rtReq, rtRet, rtEvaluated>>

\* on success req.Route.Error is left as it is
LookupCluster ==
    /\ rtPc = "product"
    /\ LET r == ClusterLookup(rtTable, rtRoute.Product, rtReq)
       IN  /\ rtRoute' = [rtRoute EXCEPT !.ClusterName = r.clusterName,
                                         !.Error = IF r.err = "nil" THEN @ ELSE r.err]
           /\ rtErr' = r.err
           /\ rtEvaluated' = r.evaluated
    /\ rtPc' = "cluster"
    /\ UNCHANGED <<rtTable, rtReq, rtRet, rtConsulted>>

\* Lookup: both lookups; it returns a RequestRoute of its own
Lookup ==
    /\ rtPc = "start"
    /\ LET p == ProductLookup(rtTable, rtReq)
           c == ClusterLookup(rtTable, p.route.product, rtReq)
       IN  /\ rtConsulted' = p.consulted
           /\ IF p.err # "nil"
              THEN /\ rtRoute' = [rtRoute EXCEPT !.HostTag = p.route.tag,
                                                !.Product = p.route.product,
                                                !.Error = p.err]
                   /\ rtRet' = [Product |-> "", HostTag |-> "", ClusterName |-> "",
                                Error |-> p.err]
                   /\ UNCHANGED rtEvaluated
              ELSE /\ rtRoute' = [HostTag |-> p.route.tag,
                                  Product |-> p.route.product,
                                  ClusterName |-> c.clusterName,
                                  Error |-> c.err]
                   /\ rtRet' = [Product |-> p.route.product,
                                HostTag |-> p.route.tag,
                                ClusterName |-> c.clusterName,
                                Error |-> c.err]
                   /\ rtEvaluated' = c.evaluated
    /\ rtPc' = "lookup"
    /\ UNCHANGED <<rtTable, rtReq, rtErr>>

\* partial maps from keys to values with at most n entries
PartialMaps(keys, values, n) ==
    UNION {[d -> values] : d \in {x \in SUBSET keys : Cardinality(x) <= n}}

HostConfs ==
    [HostMap : PartialMaps(ConfHosts, Tags, MaxHosts),
     HostTagMap : PartialMaps({"t1"}, {"p1"}, 1),
     DefaultProduct : {"", "pd"}]

VipConfs == [VipMap : PartialMaps({"v1"}, {"pv"}, 1)]

RuleLists ==
    UNION {[1 .. n -> [cond : Conds, cluster : ClusterNames]] : n \in 0 .. MaxRules}

RouteConfs == [RuleMap : UNION {[d -> RuleLists] : d \in {{}, {"p1"}, {"pv"}}}]

\* a request none of the lookups has seen
FreshRoute == [Product |-> "", HostTag |-> "", ClusterName |-> "", Error |-> "nil"]

\* host and VIP configuration and the request drawn; one rule list
InitRoute ==
    /\ rtTable \in {ZeroTable} \cup
          UNION {Update(hc, vc, [RuleMap |->
                                   [p \in {"p1"} |-> <<[cond |-> "c1", cluster |-> "ca"]>>]])
                 : hc \in HostConfs, vc \in VipConfs}
    /\ rtReq \in [host : ReqHosts, vip : Vips, conds : {{"c1"}, {}}]
    /\ rtRoute = FreshRoute
    /\ rtRet = FreshRoute
    /\ rtErr = "nil"
    /\ rtPc = "start"
    /\ rtConsulted = {}
    /\ rtEvaluated = <<>>

\* rule lists and the request's matches drawn; the request comes new or with
\* its product found
InitCluster ==
    /\ rtTable \in
          UNION {Update([HostMap |-> [h \in {<<"a">>} |-> "t1"],
                         HostTagMap |-> [g \in {"t1"} |-> "p1"],
                         DefaultProduct |-> ""],
                        [VipMap |-> <<>>], rc) : rc \in RouteConfs}
    /\ rtReq \in [host : {<<"a">>}, vip : {<<>>}, conds : SUBSET Conds]
    /\ \/ rtPc = "start" /\ rtRoute = FreshRoute
       \/ /\ rtPc = "product"
          /\ rtRoute \in {[FreshRoute EXCEPT !.Product = p] : p \in {"p1", "pv", "px"}}
    /\ rtRet = FreshRoute
    /\ rtErr = "nil"
    /\ rtConsulted = {}
    /\ rtEvaluated = <<>>

\* no table, no request
IdleRoute ==
    /\ rtTable = ZeroTable
    /\ rtReq = [host |-> <<>>, vip |-> <<>>, conds |-> {}]
    /\ rtRoute = FreshRoute
    /\ rtRet = FreshRoute
    /\ rtErr = "nil"
    /\ rtPc = "idle"
    /\ rtConsulted = {}
    /\ rtEvaluated = <<>>

\* =================================================================
\* Reload of the routing table
\* =================================================================

\* number of reloads
MaxReloads == 2

\* HostTable objects: object 0 is the one published at the start, object n
\* the one the n-th reload makes.  A part of an object holds the version of
\* the configuration it was set from, 0 while it has its zero value.
\* Configuration version n + 1 is the one the n-th reload loads.
TableIds == 0 .. MaxReloads
Readers == {"r1", "r2"}

\* HostTable.Update: the order of its three steps
UpdateStepSkipsRoute(step) ==
    CASE step = "host" -> "vip"
      [] OTHER         -> "swap"

UpdateStepAfter(step) ==
    CASE step = "host" -> "vip"
      [] step = "vip"  -> "route"
      [] OTHER         -> "swap"

\* a reload begins: newHostTable()
ReloadStart ==
    /\ upd.pc = "idle"
    /\ upd.id < MaxReloads
    /\ upd' = [pc |-> "host", id |-> upd.id + 1]
    /\ UNCHANGED <<snap, cur, rd>>

updateHostTable ==
    /\ upd.pc = "host"
    /\ snap' = [snap EXCEPT ![upd.id].host = upd.id + 1]
    /\ upd' = [upd EXCEPT !.pc = UpdateStepAfter("host")]
    /\ UNCHANGED <<cur, rd>>

updateVipTable ==
    /\ upd.pc = "vip"
    /\ snap' = [snap EXCEPT ![upd.id].vip = upd.id + 1]
    /\ upd' = [upd EXCEPT !.pc = UpdateStepAfter("vip")]
    /\ UNCHANGED <<cur, rd>>

updateRouteTable ==
    /\ upd.pc = "route"
    /\ snap' = [snap EXCEPT ![upd.id].route = upd.id + 1]
    /\ upd' = [upd EXCEPT !.pc = UpdateStepAfter("route")]
    /\ UNCHANGED <<cur, rd>>

\* the reload ends: the new table replaces the published one
Publish ==
    /\ upd.pc = "swap"
    /\ cur' = upd.id
    /\ upd' = [upd EXCEPT !.pc = "idle"]
    /\ UNCHANGED <<snap, rd>>

\* a request takes the published table
ReaderStart(r) ==
    /\ rd[r].pc = "idle"
    /\ rd' = [rd EXCEPT ![r] = [pc |-> "host", tbl |-> cur, seen |-> <<>>]]
    /\ UNCHANGED <<snap, cur, upd>>

\* a read of one part of the reader's table
ReadPart(r, part, next) ==
    /\ rd[r].pc = part
    /\ rd' = [rd EXCEPT ![r].pc = next,
                        ![r].seen = [q \in DOMAIN rd[r].seen \cup {part} |->
                                        IF q = part THEN snap[rd[r].tbl][part]
                                        ELSE rd[r].seen[q]]]
    /\ UNCHANGED <<snap, cur, upd>>

\* LookupHostTagAndProduct: findHostRoute (and defaultProduct)
ReaderHost(r) == ReadPart(r, "host", "vip")

\* LookupHostTagAndProduct: findVipRoute
ReaderVip(r) == ReadPart(r, "vip", "route")

\* LookupCluster: productRouteTable
ReaderRoute(r) == ReadPart(r, "route", "done")

\* the request is over
ReaderEnd(r) ==
    /\ rd[r].pc = "done"
    /\ rd' = [rd EXCEPT ![r] = [pc |-> "idle", tbl |-> 0, seen |-> <<>>]]
    /\ UNCHANGED <<snap, cur, upd>>

InitReload ==
    /\ snap = [n \in TableIds |->
                 IF n = 0 THEN [host |-> 1, vip |-> 1, route |-> 1]
                 ELSE [host |-> 0, vip |-> 0, route |-> 0]]
    /\ cur = 0
    /\ upd = [pc |-> "idle", id |-> 0]
    /\ rd = [r \in Readers |-> [pc |-> "idle", tbl |-> 0, seen |-> <<>>]]

\* =================================================================
\* IPItems (bfe_util/ipdict)
\* =================================================================

\* most InsertPair calls
MaxPairs == 3
\* most Sort calls
MaxSorts == 3
\* number of IPv6 addresses below the IPv4 addresses, and of IPv4 addresses
NumV6 == 2
NumV4 == 3

\* A 16-byte address is the number its bytes spell (bytes.Compare is the order
\* of the numbers).  The addresses from :: on are IPv6 addresses, those from
\* ::ffff:0.0.0.0 on are the IPv4 addresses in their 16-byte form.
IPv6zero == 0
IPv4zero == IPv6zero + NumV6
Addrs == IPv6zero .. (IPv4zero + NumV4 - 1)

\* the pairs InsertPair accepts: startIP <= endIP, both of one family
IPPairs ==
    {pr \in [startIP : Addrs, endIP : Addrs] :
        /\ pr.startIP <= pr.endIP
        /\ (pr.startIP < IPv4zero) = (pr.endIP < IPv4zero)}

\* ipPairs.Less
Less(items, x, y) == items[x].startIP >= items[y].startIP

\* ipPairs.Swap
Swap(items, x, y) == [items EXCEPT ![x] = items[y], ![y] = items[x]]

\* sort.Sort on fewer than seven elements is an insertion sort:
\*   for i := a + 1; i < b; i++ {
\*       for j := i; j > a && data.Less(j, j-1); j-- { data.Swap(j, j-1) } }
\* (indices here start at 1)
RECURSIVE SortInner(_, _)
SortInner(items, y) ==
    IF y > 1 /\ Less(items, y, y - 1)
    THEN SortInner(Swap(items, y, y - 1), y - 1)
    ELSE items

RECURSIVE SortOuter(_, _)
SortOuter(items, x) ==
    IF x > Len(items) THEN items ELSE SortOuter(SortInner(items, x), x + 1)

SortItems(items) == SortOuter(items, 2)

\* an emptied slot
Tombstone == [startIP |-> IPv6zero, endIP |-> IPv6zero]

IsZero(ip) == ip = IPv6zero \/ ip = IPv4zero

\* checkMerge: the loop "Merge items [i+1, j)", from index z on
RECURSIVE MergeBetween(_, _, _, _)
MergeBetween(items, z, y, mergedNum) ==
    IF z >= y
    THEN [items |-> items, mergedNum |-> mergedNum]
    ELSE IF IsZero(items[z].endIP)
         THEN MergeBetween(items, z + 1, y, mergedNum)
         ELSE MergeBetween([items EXCEPT ![z] = Tombstone], z + 1, y, mergedNum + 1)

\* the test of checkMerge
CanMerge(items, x, y) == items[y].endIP >= items[x].startIP

checkMerge(items, x, y) ==
    IF CanMerge(items, x, y)
    THEN LET merged ==
                 [items EXCEPT
                    ![x] = [startIP |-> items[y].startIP,
                            endIP |-> IF items[y].endIP >= items[x].endIP
                                      THEN items[y].endIP ELSE items[x].endIP],
                    ![y] = Tombstone]
         IN  MergeBetween(merged, x + 1, y, 1)
    ELSE [items |-> items, mergedNum |-> 0]

\* mergeItems: the inner loop (over j) for one index x of the outer loop
RECURSIVE MergeInner(_, _, _, _)
MergeInner(items, x, y, mergedNum) ==
    IF y > Len(items)
    THEN [items |-> items, mergedNum |-> mergedNum]
    ELSE IF items[y].endIP = IPv6zero \/ items[x].endIP = IPv4zero
         THEN MergeInner(items, x, y + 1, mergedNum)
         ELSE LET r == checkMerge(items, x, y)
              IN  MergeInner(r.items, x, y + 1, mergedNum + r.mergedNum)

\* mergeItems: the outer loop (over i)
RECURSIVE MergeOuter(_, _, _)
MergeOuter(items, x, mergedNum) ==
    IF x > Len(items) - 1
    THEN [items |-> items, mergedNum |-> mergedNum]
    ELSE IF IsZero(items[x].endIP)
         THEN MergeOuter(items, x + 1, mergedNum)
         ELSE LET r == MergeInner(items, x, x + 1, mergedNum)
              IN  MergeOuter(r.items, x + 1, r.mergedNum)

mergeItems(items) == MergeOuter(items, 1, 0)

\* IPItems.Sort: sort, merge, sort, reslice
SortResult(items) ==
    LET m == mergeItems(SortItems(items))
    IN  SubSeq(SortItems(m.items), 1, Len(items) - m.mergedNum)

InsertPair ==
    /\ Len(ipInserted) < MaxPairs
    /\ \E pr \in IPPairs :
          /\ ipItems' = Append(ipItems, pr)
          /\ ipInserted' = Append(ipInserted, pr)
    /\ ipLast' = "insert"
    /\ ipTwice' = FALSE
    /\ UNCHANGED <<ipBefore, ipSorts>>

Sort ==
    /\ ipSorts < MaxSorts
    /\ ipSorts' = ipSorts + 1
    /\ ipBefore' = ipItems
    /\ ipItems' = SortResult(ipItems)
    /\ ipTwice' = (ipLast = "sort")
    /\ ipLast' = "sort"
    /\ UNCHANGED ipInserted

\* NewIPItems
InitIP ==
    /\ ipItems = <<>>
    /\ ipInserted = <<>>
    /\ ipLast = "new"
    /\ ipBefore = <<>>
    /\ ipTwice = FALSE
    /\ ipSorts = 0

\* =================================================================
\* HTTP/2 server connection (bfe_http2): stream IDs, stream states,
\* header blocks, flow control and request bodies
\* =================================================================

\* largest stream ID a frame carries
MaxStreamID == 3
\* most frames received on the connection
MaxFrames == 5
\* most writes of response body by the handlers of a connection
MaxWrites == 2

StreamIDs == 0..MaxStreamID

\* streamState
StreamStates ==
    {"Idle", "Open", "HalfClosedLocal", "HalfClosedRemote",
     "ResvLocal", "ResvRemote", "Closed"}

initialWindowSize == 65535
initialMaxFrameSize == 16384
\* the largest flow-control window, 2^31 - 1
MaxWindowSize == 2147483647

\* declBodyBytes of a request without content-length
NoLength == 0 - 1

\* the state of a stream: its state in the streams map, else Closed for an
\* ID up to the highest seen, else Idle
StateIn(streams, maxStreamID, id) ==
    IF id \in DOMAIN streams THEN streams[id]
    ELSE IF id <= maxStreamID THEN "Closed"
    ELSE "Idle"

State(id) == StateIn(h2Streams, h2MaxStreamID, id)

\* the streams map without a stream
Without(streams, id) == [n \in DOMAIN streams \ {id} |-> streams[n]]

\* the streams map with a stream in a state
With(streams, id, st) ==
    [n \in DOMAIN streams \cup {id} |-> IF n = id THEN st ELSE streams[n]]

\* what the last step was and what the connection knew before it
EventN(op, id, endStream, n, pad) ==
    [op |-> op, id |-> id, endStream |-> endStream, prev |-> State(id),
     known |-> id \in DOMAIN h2Streams, maxStreamID |-> h2MaxStreamID,
     block |-> h2Block, n |-> n, pad |-> pad, streams |-> DOMAIN h2Streams,
     send |-> h2Send, in |-> h2In, bodies |-> h2Body, fields |-> <<>>,
     handlers |-> h2Handler]

Event(op, id, endStream) == EventN(op, id, endStream, 0, 0)

\* a HEADERS frame for a stream not in the map opens it
OpensAnyOdd(id) == id % 2 = 1

OpensStream(id) == id % 2 = 1 /\ id > h2MaxStreamID

\* the state a stream opened by HEADERS starts in
OpenedAlwaysOpen(endStream) == "Open"

OpenedState(endStream) == IF endStream THEN "HalfClosedRemote" ELSE "Open"

\* the request body of a stream once the stream is cancelled or has failed:
\* reads return an error unless the body had ended before
Cancelled(bodies, id) ==
    IF h2BodyEOF[id] THEN bodies ELSE [bodies EXCEPT ![id].err = TRUE]

\* a handler blocked on a stream that is cancelled is woken by Unblock
Blocked(id) == h2Handler[id] \in {"read", "write", "notify"}

\* a connection error: GOAWAY with the code and the last stream ID, then the
\* connection is closed
ConnectionError(code) ==
    /\ h2GoAway' = code
    /\ h2LastStreamID' = h2MaxStreamID
    /\ UNCHANGED <<h2Streams, h2MaxStreamID, h2Accepted, h2Handler, h2BodyEOF,
                   h2Hist, h2Rst, h2Block, h2Send, h2In, h2Body>>

\* closing a stream: it leaves the map, in state Closed
CloseStream(id) ==
    /\ h2Streams' = Without(h2Streams, id)
    /\ h2Hist' = [h2Hist EXCEPT ![id] = Append(@, "Closed")]

\* a stream error: RST_STREAM with the code, and the stream is removed;
\* bodies is the state of the request bodies the error was found in
StreamErrorIn(id, code, bodies) ==
    /\ h2Rst' = [h2Rst EXCEPT ![id] = code]
    /\ IF id \in DOMAIN h2Streams
       THEN CloseStream(id) /\ h2Body' = Cancelled(bodies, id)
       ELSE UNCHANGED <<h2Streams, h2Hist>> /\ h2Body' = bodies
    /\ UNCHANGED <<h2MaxStreamID, h2Accepted, h2Handler, h2BodyEOF, h2GoAway,
                   h2LastStreamID>>

StreamError(id, code) == StreamErrorIn(id, code, h2Body)

\* a handler blocked reading the body goes on when data or the end arrives
WakeReader(id) ==
    IF h2Handler[id] = "read"
    THEN [h2Handler EXCEPT ![id] = "running"]
    ELSE h2Handler

\* END_STREAM from the peer on an open stream
EndFromPeerIn(id, bodies) ==
    /\ h2Streams' = [h2Streams EXCEPT ![id] = "HalfClosedRemote"]
    /\ h2Hist' = [h2Hist EXCEPT ![id] = Append(@, "HalfClosedRemote")]
    /\ h2BodyEOF' = [h2BodyEOF EXCEPT ![id] = TRUE]
    /\ h2Body' = bodies
    /\ UNCHANGED <<h2MaxStreamID, h2Accepted, h2GoAway, h2Rst, h2LastStreamID>>

EndFromPeer(id) == EndFromPeerIn(id, h2Body) /\ h2Handler' = WakeReader(id)

\* while a header block is in progress every frame but a CONTINUATION of
\* the same stream interrupts it
InterruptsNever(op, id) == FALSE

InterruptsBlock(op, id) ==
    h2Block # 0 /\ ~(op = "CONTINUATION" /\ id = h2Block)

\* the header block that begins with a HEADERS frame
BlockAfter(id, endHeaders) == IF endHeaders THEN 0 ELSE id

\* the handler of a stream starts when its header block is complete
StartHandler(id, endHeaders) ==
    IF endHeaders /\ h2Handler[id] = "none"
    THEN [h2Handler EXCEPT ![id] = "running"]
    ELSE h2Handler

Receiving ==
    /\ h2GoAway = ""
    /\ h2Recv < MaxFrames
    /\ h2Recv' = h2Recv + 1

\* the windows and the body of a stream that a HEADERS frame opens
OpenSend(id) ==
    [h2Send EXCEPT !.stream[id] = h2Send.initial, !.credit[id] = 0,
                   !.sent[id] = 0, !.want[id] = 0]

OpenIn(id) == [h2In EXCEPT !.stream[id] = initialWindowSize]

OpenBody(id, declBodyBytes) ==
    [h2Body EXCEPT ![id] = [decl |-> declBodyBytes, bytes |-> 0, err |-> FALSE,
                            read |-> 0, seen |-> ""]]

\* a declared content-length that the body received so far cannot meet
TooMany(id, n) ==
    h2Body[id].decl # NoLength /\ h2Body[id].bytes + n > h2Body[id].decl

TooFewNever(id, n) == FALSE

TooFew(id, n) ==
    h2Body[id].decl # NoLength /\ h2Body[id].bytes + n # h2Body[id].decl

\* header fields: a name and a value, each a sequence of character codes

\* isTokenTable: the codes of the token characters
isTokenTable ==
    {33, 35, 36, 37, 38, 39, 42, 43, 45, 46} \cup (48..57) \cup (65..90)
    \cup {94, 95, 96} \cup (97..122) \cup {124, 126}

\* validHeaderFieldName: not empty, every character a token character and
\* none of them an uppercase letter
\* the same without the test for an uppercase letter
validTokenName(v) ==
    /\ Len(v) # 0
    /\ \A k \in 1..Len(v) : v[k] < 127 /\ v[k] \in isTokenTable

validHeaderFieldName(v) ==
    /\ Len(v) # 0
    /\ \A k \in 1..Len(v) :
          /\ ~(v[k] >= 127 \/ (65 <= v[k] /\ v[k] <= 90))
          /\ v[k] \in isTokenTable

\* validHeaderFieldValue: no control character but the tab, and no DEL
AnyFieldValue(v) == TRUE

validHeaderFieldValue(v) ==
    \A k \in 1..Len(v) : ~((v[k] < 32 /\ v[k] # 9) \/ v[k] = 127)

\* the pseudo-header fields of a request
PseudoMethod == <<58, 109, 101, 116, 104, 111, 100>>
PseudoPath == <<58, 112, 97, 116, 104>>
PseudoScheme == <<58, 115, 99, 104, 101, 109, 101>>
PseudoAuthority == <<58, 97, 117, 116, 104, 111, 114, 105, 116, 121>>
PseudoNames == {PseudoMethod, PseudoPath, PseudoScheme, PseudoAuthority}

SchemeHTTP == <<104, 116, 116, 112>>
SchemeHTTPS == <<104, 116, 116, 112, 115>>

IsPseudo(name) == Len(name) # 0 /\ name[1] = 58

\* the value of the first field with a name, empty when there is none
RECURSIVE ValueFrom(_, _, _)
ValueFrom(fields, name, x) ==
    IF x > Len(fields) THEN <<>>
    ELSE IF fields[x].name = name THEN fields[x].value
    ELSE ValueFrom(fields, name, x + 1)

ValueOf(fields, name) == ValueFrom(fields, name, 1)

\* a header block that is not a valid request
Malformed(fields) ==
    \/ \E x \in 1..Len(fields) :
          \/ ~IsPseudo(fields[x].name) /\ ~validHeaderFieldName(fields[x].name)
          \/ ~validHeaderFieldValue(fields[x].value)
          \/ IsPseudo(fields[x].name) /\ fields[x].name \notin PseudoNames
          \/ \E y \in 1..Len(fields) :
                /\ x < y
                /\ IsPseudo(fields[y].name)
                /\ \/ ~IsPseudo(fields[x].name)
                   \/ fields[x].name = fields[y].name
    \/ ValueOf(fields, PseudoMethod) = <<>>
    \/ ValueOf(fields, PseudoPath) = <<>>
    \/ ValueOf(fields, PseudoScheme) \notin {SchemeHTTP, SchemeHTTPS}

Field(name, value) == [name |-> name, value |-> value]

\* GET / over https
GoodRequest ==
    <<Field(PseudoMethod, <<71, 69, 84>>), Field(PseudoScheme, SchemeHTTPS),
      Field(PseudoPath, <<47>>)>>

\* a request that is refused when its header block is complete: its header
\* fields are not a valid request, or it ends the stream while declaring a
\* body
Rejected(endStream, declBodyBytes, malformed) ==
    malformed \/ (endStream /\ declBodyBytes # NoLength /\ declBodyBytes # 0)

\* a HEADERS frame arrives; declBodyBytes is its content-length or NoLength,
\* fields are the header fields of its block
processHeaders(id, endStream, endHeaders, declBodyBytes, fields) ==
    /\ Receiving
    /\ h2Last' = [Event("HEADERS", id, endStream) EXCEPT !.fields = fields]
    /\ IF InterruptsBlock("HEADERS", id)
       THEN ConnectionError("PROTOCOL_ERROR")
       ELSE IF id \in DOMAIN h2Streams
            THEN \* a second header block of a stream: its trailers
                 IF h2Streams[id] = "Open" /\ endStream /\ ~TooFew(id, 0)
                 THEN /\ EndFromPeer(id)
                      /\ h2Block' = BlockAfter(id, endHeaders)
                      /\ UNCHANGED <<h2Send, h2In>>
                 ELSE /\ StreamError(id, "PROTOCOL_ERROR")
                      /\ UNCHANGED <<h2Block, h2Send, h2In>>
            ELSE IF OpensStream(id)
                 THEN /\ h2MaxStreamID' = id
                      /\ h2Accepted' = Append(h2Accepted, id)
                      /\ h2Send' = OpenSend(id)
                      /\ h2In' = OpenIn(id)
                      /\ UNCHANGED <<h2GoAway, h2LastStreamID>>
                      /\ IF Rejected(endStream, declBodyBytes, Malformed(fields))
                         THEN \* the stream is opened and reset at once, and
                              \* no handler runs
                              /\ h2Rst' = [h2Rst EXCEPT ![id] = "PROTOCOL_ERROR"]
                              /\ h2Hist' = [h2Hist EXCEPT ![id] =
                                              @ \o <<OpenedState(endStream), "Closed">>]
                              /\ h2Block' = BlockAfter(id, endHeaders)
                              /\ UNCHANGED <<h2Streams, h2Handler, h2BodyEOF, h2Body>>
                         ELSE /\ h2Streams' = With(h2Streams, id, OpenedState(endStream))
                              /\ h2Hist' = [h2Hist EXCEPT
                                              ![id] = Append(@, OpenedState(endStream))]
                              /\ h2Handler' = StartHandler(id, endHeaders)
                              /\ h2BodyEOF' = [h2BodyEOF EXCEPT ![id] = endStream]
                              /\ h2Body' = OpenBody(id, declBodyBytes)
                              /\ h2Block' = BlockAfter(id, endHeaders)
                              /\ UNCHANGED h2Rst
                 ELSE ConnectionError("PROTOCOL_ERROR")

\* a HEADERS frame of a well-formed request without content-length
RecvHeaders(id, endStream, endHeaders) ==
    processHeaders(id, endStream, endHeaders, NoLength, GoodRequest)

\* a CONTINUATION frame arrives
RecvContinuation(id, endHeaders) ==
    /\ Receiving
    /\ h2Last' = Event("CONTINUATION", id, FALSE)
    /\ IF InterruptsBlock("CONTINUATION", id) \/ h2Block = 0
       THEN ConnectionError("PROTOCOL_ERROR")
       ELSE /\ h2Block' = BlockAfter(id, endHeaders)
            /\ h2Handler' = IF id \in DOMAIN h2Streams
                             THEN StartHandler(id, endHeaders)
                             ELSE h2Handler
            /\ UNCHANGED <<h2Streams, h2MaxStreamID, h2Accepted, h2BodyEOF,
                           h2Hist, h2GoAway, h2Rst, h2LastStreamID, h2Send,
                           h2In, h2Body>>

\* a PING frame arrives
RecvPing ==
    /\ Receiving
    /\ h2Last' = Event("PING", 0, FALSE)
    /\ IF InterruptsBlock("PING", 0)
       THEN ConnectionError("PROTOCOL_ERROR")
       ELSE UNCHANGED <<h2Streams, h2MaxStreamID, h2Accepted, h2Handler,
                        h2BodyEOF, h2Hist, h2GoAway, h2Rst, h2Block,
                        h2LastStreamID, h2Send, h2In, h2Body>>

\* a PUSH_PROMISE frame arrives: a client may not push
RecvPushPromise(id) ==
    /\ Receiving
    /\ h2Last' = Event("PUSH_PROMISE", id, FALSE)
    /\ ConnectionError("PROTOCOL_ERROR")

\* the bytes a padded DATA frame spends on padding: the padding and the byte
\* that holds its length
Padded(padLength) == padLength + 1

\* the bytes of a DATA frame that count against the windows: the payload
\* and the bytes spent on padding (0 in a frame that is not padded)
FlowLength(n, pad) == n + pad

\* the inbound windows after a DATA frame of an open stream is taken: the
\* payload waits for the handler, the padding is given back at once
TakeKeepingPadding(id, n, pad) ==
    [h2In EXCEPT !.conn = @ - FlowLength(n, pad),
                 !.stream[id] = @ - FlowLength(n, pad),
                 !.recvConn = @ + FlowLength(n, pad),
                 !.unread[id] = @ + n]

TakeData(id, n, pad) ==
    [h2In EXCEPT !.conn = @ - FlowLength(n, pad) + pad,
                 !.stream[id] = @ - FlowLength(n, pad) + pad,
                 !.recvConn = @ + FlowLength(n, pad),
                 !.unread[id] = @ + n,
                 !.wuConn = @ + pad, !.wu[id] = @ + pad]

\* the inbound windows after a DATA frame for a stream that takes no data:
\* its length is given back to the connection window at once
RefuseKeeping(n, pad) == h2In

RefuseData(n, pad) ==
    [h2In EXCEPT !.recvConn = @ + FlowLength(n, pad),
                 !.wuConn = @ + FlowLength(n, pad)]

\* a DATA frame with n bytes of payload arrives
processData(id, n, pad, endStream) ==
    /\ Receiving
    /\ h2Last' = EventN("DATA", id, endStream, n, pad)
    /\ IF InterruptsBlock("DATA", id) \/ id = 0 \/ State(id) = "Idle"
       THEN ConnectionError("PROTOCOL_ERROR")
       ELSE IF FlowLength(n, pad) > h2In.conn
       THEN ConnectionError("FLOW_CONTROL_ERROR")
       ELSE /\ UNCHANGED <<h2Block, h2Send>>
            /\ IF State(id) # "Open"
               THEN /\ StreamError(id, "STREAM_CLOSED")
                    /\ h2In' = RefuseData(n, pad)
               ELSE IF TooMany(id, n)
               THEN /\ StreamError(id, "PROTOCOL_ERROR")
                    /\ h2In' = RefuseData(n, pad)
               ELSE IF FlowLength(n, pad) > h2In.stream[id]
               THEN /\ StreamError(id, "FLOW_CONTROL_ERROR")
                    /\ h2In' = RefuseData(n, pad)
               ELSE LET bodies == [h2Body EXCEPT ![id].bytes = @ + n]
                    IN  /\ h2In' = TakeData(id, n, pad)
                        /\ IF endStream /\ TooFew(id, n)
                           THEN StreamErrorIn(id, "PROTOCOL_ERROR", bodies)
                           ELSE IF endStream
                           THEN /\ EndFromPeerIn(id, bodies)
                                /\ h2Handler' = WakeReader(id)
                           ELSE /\ h2Body' = bodies
                                /\ h2Handler' = IF n > 0 THEN WakeReader(id)
                                                ELSE h2Handler
                                /\ UNCHANGED <<h2Streams, h2MaxStreamID,
                                               h2Accepted, h2BodyEOF, h2Hist,
                                               h2GoAway, h2Rst, h2LastStreamID>>

\* an empty DATA frame
RecvData(id, endStream) == processData(id, 0, 0, endStream)

\* a RST_STREAM frame arrives
RecvRSTStream(id) ==
    /\ Receiving
    /\ h2Last' = Event("RST_STREAM", id, FALSE)
    /\ IF InterruptsBlock("RST_STREAM", id) \/ id = 0 \/ State(id) = "Idle"
       THEN ConnectionError("PROTOCOL_ERROR")
       ELSE /\ IF id \in DOMAIN h2Streams
               THEN CloseStream(id) /\ h2Body' = Cancelled(h2Body, id)
               ELSE UNCHANGED <<h2Streams, h2Hist, h2Body>>
            /\ UNCHANGED <<h2MaxStreamID, h2Accepted, h2Handler, h2BodyEOF,
                           h2GoAway, h2Rst, h2Block, h2LastStreamID, h2Send, h2In>>

\* a send window after an increment; the window stays when it would pass
\* the largest window
Add(window, inc) ==
    IF window > 0 /\ inc > MaxWindowSize - window THEN window ELSE window + inc

\* an increment that would take a send window past the largest window
OverflowsNever(window, inc) == FALSE

Overflows(window, inc) == window > 0 /\ inc > MaxWindowSize - window

\* a WINDOW_UPDATE frame arrives
RecvWindowUpdate(id, inc) ==
    /\ Receiving
    /\ h2Last' = EventN("WINDOW_UPDATE", id, FALSE, inc, 0)
    /\ IF InterruptsBlock("WINDOW_UPDATE", id)
       THEN ConnectionError("PROTOCOL_ERROR")
       ELSE IF id = 0
       THEN IF Overflows(h2Send.conn, inc)
            THEN ConnectionError("FLOW_CONTROL_ERROR")
            ELSE /\ h2Send' = [h2Send EXCEPT !.conn = Add(@, inc),
                                             !.connCredit = @ + inc]
                 /\ UNCHANGED <<h2Streams, h2MaxStreamID, h2Accepted, h2Handler,
                                h2BodyEOF, h2Hist, h2GoAway, h2Rst, h2Block,
                                h2LastStreamID, h2In, h2Body>>
       ELSE IF State(id) = "Idle"
       THEN ConnectionError("PROTOCOL_ERROR")
       ELSE IF id \notin DOMAIN h2Streams
       THEN \* a stream that is gone: the frame is ignored
            UNCHANGED <<h2Streams, h2MaxStreamID, h2Accepted, h2Handler,
                        h2BodyEOF, h2Hist, h2GoAway, h2Rst, h2Block,
                        h2LastStreamID, h2Send, h2In, h2Body>>
       ELSE IF Overflows(h2Send.stream[id], inc)
       THEN /\ StreamError(id, "FLOW_CONTROL_ERROR")
            /\ UNCHANGED <<h2Block, h2Send, h2In>>
       ELSE /\ h2Send' = [h2Send EXCEPT !.stream[id] = Add(@, inc),
                                        !.credit[id] = @ + inc]
            /\ UNCHANGED <<h2Streams, h2MaxStreamID, h2Accepted, h2Handler,
                           h2BodyEOF, h2Hist, h2GoAway, h2Rst, h2Block,
                           h2LastStreamID, h2In, h2Body>>

\* a SETTINGS frame with INITIAL_WINDOW_SIZE arrives: the send window of
\* every stream in the map moves by the change
RecvSettings(val) ==
    /\ Receiving
    /\ h2Last' = EventN("SETTINGS", 0, FALSE, val, 0)
    /\ IF InterruptsBlock("SETTINGS", 0)
       THEN ConnectionError("PROTOCOL_ERROR")
       ELSE IF \E id \in DOMAIN h2Streams :
                   val > h2Send.initial
                   /\ Overflows(h2Send.stream[id], val - h2Send.initial)
       THEN ConnectionError("FLOW_CONTROL_ERROR")
       ELSE /\ h2Send' =
                 [h2Send EXCEPT
                    !.initial = val,
                    !.stream = [id \in StreamIDs |->
                                  IF id \in DOMAIN h2Streams
                                  THEN h2Send.stream[id] + (val - h2Send.initial)
                                  ELSE h2Send.stream[id]]]
            /\ UNCHANGED <<h2Streams, h2MaxStreamID, h2Accepted, h2Handler,
                           h2BodyEOF, h2Hist, h2GoAway, h2Rst, h2Block,
                           h2LastStreamID, h2In, h2Body>>

\* the handler of a stream reads m bytes of the request body: they go back
\* to the connection window, and to the stream window while the peer has
\* not ended the stream
HandlerRead(id, m) ==
    /\ h2GoAway = ""
    /\ h2Handler[id] = "running"
    /\ m >= 1
    /\ m <= h2In.unread[id]
    /\ h2Last' = EventN("read", id, FALSE, m, 0)
    /\ h2In' = IF State(id) = "Open"
               THEN [h2In EXCEPT !.unread[id] = @ - m,
                                 !.conn = @ + m, !.wuConn = @ + m,
                                 !.stream[id] = @ + m, !.wu[id] = @ + m]
               ELSE [h2In EXCEPT !.unread[id] = @ - m,
                                 !.conn = @ + m, !.wuConn = @ + m]
    /\ h2Body' = [h2Body EXCEPT ![id].read = @ + m]
    /\ UNCHANGED <<h2Streams, h2MaxStreamID, h2Accepted, h2Handler, h2BodyEOF,
                   h2Hist, h2GoAway, h2Rst, h2Recv, h2Block, h2LastStreamID,
                   h2Send>>

\* what a read of the body returns when no byte is left to read
BodyEnd(id) ==
    IF h2Body[id].err THEN "error"
    ELSE IF h2BodyEOF[id] THEN "EOF"
    ELSE ""

\* the handler reads the body to its end
HandlerReadEnd(id) ==
    /\ h2GoAway = ""
    /\ h2Handler[id] = "running"
    /\ h2In.unread[id] = 0
    /\ BodyEnd(id) # ""
    /\ h2Body[id].seen = ""
    /\ h2Last' = Event("readEnd", id, FALSE)
    /\ h2Body' = [h2Body EXCEPT ![id].seen = BodyEnd(id)]
    /\ UNCHANGED <<h2Streams, h2MaxStreamID, h2Accepted, h2Handler, h2BodyEOF,
                   h2Hist, h2GoAway, h2Rst, h2Recv, h2Block, h2LastStreamID,
                   h2Send, h2In>>

\* the handler writes n bytes of response body; they wait for the writer
HandlerWrite(id, n) ==
    /\ h2GoAway = ""
    /\ h2Handler[id] = "running"
    /\ id \in DOMAIN h2Streams
    /\ h2Send.want[id] = 0
    /\ h2Send.writes < MaxWrites
    /\ h2Last' = EventN("write", id, FALSE, n, 0)
    /\ h2Send' = [h2Send EXCEPT !.want[id] = n, !.writes = @ + 1]
    /\ h2Handler' = [h2Handler EXCEPT ![id] = "write"]
    /\ UNCHANGED <<h2Streams, h2MaxStreamID, h2Accepted, h2BodyEOF, h2Hist,
                   h2GoAway, h2Rst, h2Recv, h2Block, h2LastStreamID, h2In,
                   h2Body>>

Min3(a, b, c) == IF a <= b /\ a <= c THEN a ELSE IF b <= c THEN b ELSE c

\* the size of the next DATA frame of a stream: what the handler still wants
\* to write, cut to the frame size and to the two send windows
FrameNoWindow(id) == IF h2Send.want[id] < initialMaxFrameSize
                     THEN h2Send.want[id] ELSE initialMaxFrameSize

FrameSize(id) ==
    Min3(FrameNoWindow(id), h2Send.stream[id], h2Send.conn)

\* the writer sends a DATA frame of a stream whose handler is writing
WriteData(id) ==
    /\ h2GoAway = ""
    /\ h2Handler[id] = "write"
    /\ id \in DOMAIN h2Streams
    /\ FrameSize(id) > 0
    /\ h2Last' = EventN("data", id, FALSE, FrameSize(id), 0)
    /\ h2Send' = [h2Send EXCEPT !.want[id] = @ - FrameSize(id),
                                !.stream[id] = @ - FrameSize(id),
                                !.conn = @ - FrameSize(id),
                                !.sent[id] = @ + FrameSize(id),
                                !.connSent = @ + FrameSize(id),
                                !.credit[id] = @ - FrameSize(id),
                                !.connCredit = @ - FrameSize(id)]
    /\ h2Handler' = IF h2Send.want[id] = FrameSize(id)
                    THEN [h2Handler EXCEPT ![id] = "running"]
                    ELSE h2Handler
    /\ UNCHANGED <<h2Streams, h2MaxStreamID, h2Accepted, h2BodyEOF, h2Hist,
                   h2GoAway, h2Rst, h2Recv, h2Block, h2LastStreamID, h2In,
                   h2Body>>

\* the handler starts to wait: for body bytes, or for the peer to go away
HandlerWait(id, what) ==
    /\ h2GoAway = ""
    /\ h2Handler[id] = "running"
    /\ id \in DOMAIN h2Streams
    /\ what = "read" => h2In.unread[id] = 0 /\ BodyEnd(id) = ""
    /\ h2Handler' = [h2Handler EXCEPT ![id] = what]
    /\ h2Last' = Event("wait", id, FALSE)
    /\ UNCHANGED <<h2Streams, h2MaxStreamID, h2Accepted, h2BodyEOF, h2Hist,
                   h2GoAway, h2Rst, h2Recv, h2Block, h2LastStreamID, h2Send,
                   h2In, h2Body>>

\* the stream of a handler is cancelled: it was reset or failed, or the
\* connection is closed
CancelledNever(id) == FALSE

IsCancelled(id) == id \notin DOMAIN h2Streams \/ h2GoAway # ""

\* a blocked handler of a cancelled stream goes on: its read or write
\* returns an error, its close notification fires
Unblock(id) ==
    /\ Blocked(id)
    /\ IsCancelled(id)
    /\ h2Handler' = [h2Handler EXCEPT ![id] = "running"]
    /\ h2Send' = [h2Send EXCEPT !.want[id] = 0]
    /\ h2Body' = [h2Body EXCEPT ![id].seen =
                     IF h2Handler[id] = "read" THEN "error" ELSE @]
    /\ h2Last' = Event("unblock", id, FALSE)
    /\ UNCHANGED <<h2Streams, h2MaxStreamID, h2Accepted, h2BodyEOF, h2Hist,
                   h2GoAway, h2Rst, h2Recv, h2Block, h2LastStreamID, h2In>>

\* the handler writes the response headers and waits until the frame is
\* written or the stream is cancelled
HandlerWriteHeaders(id) ==
    /\ h2GoAway = ""
    /\ h2Handler[id] = "running"
    /\ h2Handler' = [h2Handler EXCEPT ![id] = "write"]
    /\ h2Last' = Event("writeHeaders", id, FALSE)
    /\ UNCHANGED <<h2Streams, h2MaxStreamID, h2Accepted, h2BodyEOF, h2Hist,
                   h2GoAway, h2Rst, h2Recv, h2Block, h2LastStreamID, h2Send,
                   h2In, h2Body>>

\* the writer has written the response headers of a stream
WriteHeadersDone(id) ==
    /\ h2GoAway = ""
    /\ h2Handler[id] = "write"
    /\ h2Send.want[id] = 0
    /\ id \in DOMAIN h2Streams
    /\ h2Handler' = [h2Handler EXCEPT ![id] = "running"]
    /\ h2Last' = Event("headers", id, FALSE)
    /\ UNCHANGED <<h2Streams, h2MaxStreamID, h2Accepted, h2BodyEOF, h2Hist,
                   h2GoAway, h2Rst, h2Recv, h2Block, h2LastStreamID, h2Send,
                   h2In, h2Body>>

\* the client closes the connection
ConnClose ==
    /\ h2GoAway = ""
    /\ h2GoAway' = "closed"
    /\ h2Last' = Event("close", 0, FALSE)
    /\ UNCHANGED <<h2Streams, h2MaxStreamID, h2Accepted, h2Handler, h2BodyEOF,
                   h2Hist, h2Rst, h2Recv, h2Block, h2LastStreamID, h2Send,
                   h2In, h2Body>>

\* the handler of a stream returns
HandlerReturn(id) ==
    /\ h2GoAway = ""
    /\ h2Handler[id] = "running"
    /\ h2Handler' = [h2Handler EXCEPT ![id] = "returned"]
    /\ h2Last' = Event("return", id, FALSE)
    /\ UNCHANGED <<h2Streams, h2MaxStreamID, h2Accepted, h2BodyEOF, h2Hist,
                   h2GoAway, h2Rst, h2Recv, h2Block, h2LastStreamID, h2Send,
                   h2In, h2Body>>

\* the last frame of the response, carrying END_STREAM, is written
WriteResponseEnd(id) ==
    /\ h2GoAway = ""
    /\ h2Handler[id] = "returned"
    /\ h2Handler' = [h2Handler EXCEPT ![id] = "done"]
    /\ h2Last' = Event("response", id, TRUE)
    /\ IF id \notin DOMAIN h2Streams
       THEN UNCHANGED <<h2Streams, h2Hist, h2Body>>
       ELSE IF h2Streams[id] = "HalfClosedRemote"
            THEN CloseStream(id) /\ h2Body' = Cancelled(h2Body, id)
            ELSE /\ h2Streams' = [h2Streams EXCEPT ![id] = "HalfClosedLocal"]
                 /\ h2Hist' = [h2Hist EXCEPT ![id] = Append(@, "HalfClosedLocal")]
                 /\ UNCHANGED h2Body
    /\ UNCHANGED <<h2MaxStreamID, h2Accepted, h2BodyEOF, h2GoAway, h2Rst, h2Recv,
                   h2Block, h2LastStreamID, h2Send, h2In>>

\* the handler is done but the peer has not ended the stream: RST_STREAM
SendRSTStream(id) ==
    /\ h2GoAway = ""
    /\ id \in DOMAIN h2Streams
    /\ h2Streams[id] = "HalfClosedLocal"
    /\ h2Last' = Event("reset", id, FALSE)
    /\ h2Rst' = [h2Rst EXCEPT ![id] = "NO_ERROR"]
    /\ CloseStream(id)
    /\ h2Body' = Cancelled(h2Body, id)
    /\ UNCHANGED <<h2MaxStreamID, h2Accepted, h2Handler, h2BodyEOF, h2GoAway,
                   h2Recv, h2Block, h2LastStreamID, h2Send, h2In>>

\* a connection after the greeting: no stream, no frame yet
InitH2 ==
    /\ h2Streams = <<>>
    /\ h2MaxStreamID = 0
    /\ h2Accepted = <<>>
    /\ h2Handler = [id \in StreamIDs |-> "none"]
    /\ h2BodyEOF = [id \in StreamIDs |-> FALSE]
    /\ h2Hist = [id \in StreamIDs |-> <<"Idle">>]
    /\ h2GoAway = ""
    /\ h2Rst = [id \in StreamIDs |-> ""]
    /\ h2Recv = 0
    /\ h2Block = 0
    /\ h2LastStreamID = 0
    /\ h2Send = [conn |-> initialWindowSize,
                 stream |-> [id \in StreamIDs |-> initialWindowSize],
                 connCredit |-> 0,
                 credit |-> [id \in StreamIDs |-> 0],
                 connSent |-> 0,
                 sent |-> [id \in StreamIDs |-> 0],
                 initial |-> initialWindowSize,
                 want |-> [id \in StreamIDs |-> 0],
                 writes |-> 0]
    /\ h2In = [conn |-> initialWindowSize,
               stream |-> [id \in StreamIDs |-> initialWindowSize],
               unread |-> [id \in StreamIDs |-> 0],
               recvConn |-> 0,
               wuConn |-> 0,
               wu |-> [id \in StreamIDs |-> 0]]
    /\ h2Body = [id \in StreamIDs |->
                   [decl |-> NoLength, bytes |-> 0, err |-> FALSE,
                    read |-> 0, seen |-> ""]]
    /\ h2Last = [op |-> "greet", id |-> 0, endStream |-> FALSE, prev |-> "Idle",
                 known |-> FALSE, maxStreamID |-> 0, block |-> 0, n |-> 0,
                 pad |-> 0, streams |-> {}, send |-> h2Send, in |-> h2In,
                 bodies |-> h2Body, fields |-> <<>>, handlers |-> h2Handler]

\* =================================================================
\* Condition expressions: the semantic check of primitive calls
\* (bfe_basic/condition/parser)
\* =================================================================

\* most arguments of a primitive call in an expression
MaxArgs == 3

\* the kinds of a literal argument
KindString == "STRING"
KindBool == "BOOL"
Kinds == {KindString, KindBool, "INT"}

\* funcProtos: the primitives by the kinds of their arguments
ProtosNone ==
    {"default_t", "req_cip_trusted", "req_proto_secure", "req_query_exist"}
ProtosS ==
    {"req_vip_in", "req_proto_match", "req_host_in", "req_host_regmatch",
     "req_path_regmatch", "req_query_key_prefix_in", "req_query_key_in",
     "req_url_regmatch", "req_cookie_key_in", "req_port_in", "req_ua_regmatch",
     "req_header_key_in", "req_method_in", "res_code_in", "res_header_key_in"}
ProtosSB == {"req_path_in", "req_path_prefix_in", "req_path_suffix_in"}
ProtosSS ==
    {"req_query_value_regmatch", "req_tag_match", "req_header_value_regmatch",
     "req_cip_range", "req_vip_range", "ses_vip_range", "ses_sip_range"}
ProtosSSB ==
    {"req_query_value_in", "req_query_value_prefix_in",
     "req_query_value_suffix_in", "req_cookie_value_in",
     "req_cookie_value_prefix_in", "req_cookie_value_suffix_in",
     "req_header_value_in", "req_header_value_prefix_in",
     "req_header_value_suffix_in", "res_header_value_in"}

funcProtos ==
    [name \in ProtosNone \cup ProtosS \cup ProtosSB \cup ProtosSS \cup ProtosSSB |->
        IF name \in ProtosNone THEN <<>>
        ELSE IF name \in ProtosS THEN <<KindString>>
        ELSE IF name \in ProtosSB THEN <<KindString, KindBool>>
        ELSE IF name \in ProtosSS THEN <<KindString, KindString>>
        ELSE <<KindString, KindString, KindBool>>]

\* the nodes of an expression
CallExpr(fun, args) == [type |-> "CallExpr", Fun |-> fun, Args |-> args]
Ident(name) == [type |-> "Ident", Name |-> name]
BinaryExpr(x, y) == [type |-> "BinaryExpr", X |-> x, Y |-> y]
UnaryExpr(x) == [type |-> "UnaryExpr", X |-> x]
ParenExpr(x) == [type |-> "ParenExpr", X |-> x]

\* prototypeCheck: "" for nil, else the error
prototypeCheckNoKinds(expr) ==
    IF expr.Fun \notin DOMAIN funcProtos THEN "not found"
    ELSE IF Len(funcProtos[expr.Fun]) # Len(expr.Args) THEN "args len"
    ELSE ""

prototypeCheck(expr) ==
    IF expr.Fun \notin DOMAIN funcProtos THEN "not found"
    ELSE IF Len(funcProtos[expr.Fun]) # Len(expr.Args) THEN "args len"
    ELSE IF \E x \in 1..Len(expr.Args) : funcProtos[expr.Fun][x] # expr.Args[x]
    THEN "arg type"
    ELSE ""

\* primitiveCheck: whether the traversal goes on below the node
primitiveCheck(n) == n.type \in {"BinaryExpr", "UnaryExpr", "ParenExpr"}

\* the errors primitiveCheck adds at a node
addError(n) ==
    IF n.type = "CallExpr" /\ prototypeCheck(n) # ""
    THEN <<[Fun |-> n.Fun, Args |-> n.Args, err |-> prototypeCheck(n)]>>
    ELSE <<>>

\* the traversal: the node, then its operands from left to right when
\* primitiveCheck says to go on
RECURSIVE Inspect(_)
Inspect(n) ==
    addError(n)
    \o (IF ~primitiveCheck(n) THEN <<>>
        ELSE IF n.type = "BinaryExpr" THEN Inspect(n.X) \o Inspect(n.Y)
        ELSE Inspect(n.X))

\* the semantic check of an expression
CheckCond ==
    /\ ~condChecked
    /\ condErrs' = Inspect(condExpr)
    /\ condChecked' = TRUE
    /\ UNCHANGED <<condExpr, clConf, clErr, clPrev, clRuns>>

\* the expressions checked: every call of a few primitives with up to
\* MaxArgs arguments, and the operators over a few calls
RECURSIVE ArgLists(_)
ArgLists(len) ==
    IF len = 0 THEN {<<>>}
    ELSE ArgLists(len - 1)
         \cup {Append(args, kind) : args \in {a \in ArgLists(len - 1) : Len(a) = len - 1},
                                    kind \in Kinds}

CallNames ==
    {"default_t", "req_host_in", "req_path_in", "req_cip_range",
     "req_query_value_in", "no_such_primitive"}

Operands ==
    {Ident("x"), CallExpr("default_t", <<>>), CallExpr("req_host_in", <<KindString>>),
     CallExpr("req_host_in", <<>>), CallExpr("req_path_in", <<KindString, KindString>>),
     CallExpr("no_such_primitive", <<KindString>>)}

Operations ==
    {UnaryExpr(x) : x \in Operands} \cup {ParenExpr(x) : x \in Operands}
    \cup {BinaryExpr(x, y) : x \in Operands, y \in Operands}

CondExprs ==
    {CallExpr(name, args) : name \in CallNames, args \in ArgLists(MaxArgs)}
    \cup Operands \cup Operations
    \cup {BinaryExpr(ParenExpr(x), UnaryExpr(y)) : x \in Operands, y \in Operands}
    \cup {UnaryExpr(ParenExpr(BinaryExpr(x, y))) : x \in Operands, y \in Operands}

InitCond ==
    /\ condExpr \in CondExprs
    /\ condErrs = <<>>
    /\ condChecked = FALSE

IdleCond ==
    /\ condExpr = Ident("x")
    /\ condErrs = <<>>
    /\ condChecked = TRUE

\* =================================================================
\* Cluster configuration (bfe_config/bfe_cluster_conf/cluster_conf)
\* =================================================================

\* the largest setting ID in a row from 0 that is tried
MaxSettingID == 7

\* the largest character tried alone as a header field name or value, and
\* the longest name or value made of a few characters
MaxChar == 255
MaxFieldLen == 2

\* most fields replaced in a configuration that is checked
MaxEdits == 2
\* most checks run on one configuration
MaxChecks == 2

\* a pointer field: nil, or a pointer to v
None == <<>>
Some(v) == <<v>>
Deref(p) == p[1]

\* HashStrategy
ClientIdOnly == 0
ClientIpOnly == 1
ClientIdPreferred == 2

\* BALANCE_MODE; strings that the code cuts or converts are sequences of
\* characters
BalanceModeWrr == <<"W", "R", "R">>
BalanceModeWlc == <<"W", "L", "C">>

AnyStatusCode == 0

\* strings.ToUpper over the letters the configurations here are written in
UpperOf(c) ==
    CASE c = "w" -> "W"
      [] c = "r" -> "R"
      [] c = "l" -> "L"
      [] c = "c" -> "C"
      [] OTHER -> c

ToUpper(s) == [k \in 1 .. Len(s) |-> UpperOf(s[k])]

\* strings.HasPrefix(s, "/")
HasSlashPrefix(s) == Len(s) >= 1 /\ s[1] = "/"

\* strings.Index(header, ":"): 0 here stands for Go's -1, k for Go's k - 1
RECURSIVE IndexFrom(_, _)
IndexFrom(s, k) ==
    IF k > Len(s) THEN 0
    ELSE IF s[k] = ":" THEN k ELSE IndexFrom(s, k + 1)

\* strings.TrimSpace
RECURSIVE TrimLeft(_)
TrimLeft(s) ==
    IF Len(s) > 0 /\ s[1] = " " THEN TrimLeft(Tail(s)) ELSE s

RECURSIVE TrimRight(_)
TrimRight(s) ==
    IF Len(s) > 0 /\ s[Len(s)] = " "
    THEN TrimRight(SubSeq(s, 1, Len(s) - 1))
    ELSE s

TrimSpace(s) == TrimRight(TrimLeft(s))

\* GetCookieKey(header)
GetCookieKey(header) ==
    LET at == IndexFrom(header, 1)
    IN  IF at = 0
        THEN [key |-> <<>>, ok |-> FALSE]
        ELSE [key |-> TrimSpace(SubSeq(header, at + 1, Len(header))),
              ok |-> TRUE]

\* the result of a check: the error (<<>> is nil, otherwise the message under
\* the prefixes the callers put before it) and the configuration as the check
\* leaves it
Checked(conf) == [err |-> <<>>, conf |-> conf]
Failed(conf, msg) == [err |-> <<msg>>, conf |-> conf]
\* fmt.Errorf("prefix:%s", err.Error())
Wrapped(prefix, r) ==
    [err |-> IF r.err = <<>> THEN <<>> ELSE prefix \o r.err,
     conf |-> r.conf]

\* a nil field set to its default
Defaulted(conf, field, v) ==
    IF conf[field] = None THEN [conf EXCEPT ![field] = Some(v)] ELSE conf

\* BackendBasicCheck(conf)
BackendBasicCheck(conf) ==
    IF conf.TimeoutConnSrv = None THEN Failed(conf, "no TimeoutConnSrv")
    ELSE IF conf.TimeoutResponseHeader = None
    THEN Failed(conf, "no TimeoutResponseHeader")
    ELSE Checked(Defaulted(Defaulted(conf, "MaxIdleConnsPerHost", 2),
                           "RetryLevel", RetryConnect))

\* checkStatusCode(statusCode): TRUE for a nil error
checkStatusCode(statusCode) ==
    \/ statusCode >= 100 /\ statusCode <= 599
    \/ statusCode >= 0 /\ statusCode <= 31

\* Go's integer division, which rounds towards zero
Quo(a, b) == IF a >= 0 THEN a \div b ELSE 0 - ((0 - a) \div b)

\* the width of an int and of a uint
IntSize == 64

\* an integer as the set of the positions of its one bits; the status codes
\* expected are below 2^10
LowBits == 10
BitsOf(x) == {k \in 0 .. LowBits - 1 : (x \div 2 ^ k) % 2 = 1}

\* the shift count taken without its sign
ShiftOneSigned(n) == IF n >= IntSize THEN {} ELSE {IF n < 0 THEN 0 - n ELSE n}

\* 1 << uint(n) as its one bits: uint(n) of a negative n is 2^64 + n, and a
\* shift by the width or more leaves no bit
ShiftOne(n) == IF n < 0 \/ n >= IntSize THEN {} ELSE {n}

\* the switch of MatchStatusCode on a wildcard status code
matchWildcard(statusCodeGet, statusCodeExpect) ==
    BitsOf(statusCodeExpect) \cap ShiftOne(Quo(statusCodeGet, 100) - 1) # {}

\* MatchStatusCode(statusCodeGet, statusCodeExpect): ok, and err is nil
MatchStatusCode(statusCodeGet, statusCodeExpect) ==
    IF /\ statusCodeExpect >= 100 /\ statusCodeExpect <= 599
       /\ statusCodeGet = statusCodeExpect
    THEN [ok |-> TRUE, nil |-> TRUE]
    ELSE IF statusCodeExpect = AnyStatusCode
    THEN [ok |-> TRUE, nil |-> TRUE]
    ELSE IF /\ statusCodeExpect >= 1 /\ statusCodeExpect <= 31
            /\ matchWildcard(statusCodeGet, statusCodeExpect)
    THEN [ok |-> TRUE, nil |-> TRUE]
    ELSE [ok |-> FALSE, nil |-> FALSE]

\* BackendCheckCheck(conf): the checks after the one of the scheme
BackendCheckRest(conf) ==
    IF conf.FailNum = None THEN Failed(conf, "no FailNum")
    ELSE LET c == Defaulted(conf, "SuccNum", 1)
         IN  IF Deref(c.SuccNum) < 1
             THEN Failed(c, "SuccNum should be bigger than 0")
             ELSE IF c.CheckInterval = None
             THEN Failed(c, "no CheckInterval")
             ELSE Checked(c)

\* BackendCheckCheck(conf): the checks made of an http check
BackendCheckStatus(conf) ==
    IF ~checkStatusCode(Deref(conf.StatusCode))
    THEN Failed(conf, "status code should be 100~599 (normal), 0~31 (special)")
    ELSE BackendCheckRest(conf)

BackendCheckHTTP(conf) ==
    IF conf.Uri = None THEN Failed(conf, "no Uri")
    ELSE IF ~HasSlashPrefix(Deref(conf.Uri))
    THEN Failed(conf, "Uri should be start with '/'")
    ELSE BackendCheckStatus(Defaulted(conf, "StatusCode", 200))

BackendCheckScheme(conf) ==
    IF Deref(conf.Schem) = "http"
    THEN BackendCheckHTTP(conf)
    ELSE BackendCheckRest(conf)

BackendCheckCheck(conf) ==
    IF conf.Schem # None /\ Deref(conf.Schem) \notin {"http", "tcp"}
    THEN Failed(conf, "schem for BackendCheck should be http/tcp")
    ELSE BackendCheckScheme(Defaulted(conf, "Schem", "http"))

\* HashConfCheck(conf)
HashConfCheck(conf) ==
    IF conf.HashStrategy = None THEN Failed(conf, "no HashStrategy")
    ELSE IF Deref(conf.HashStrategy)
              \notin {ClientIdOnly, ClientIpOnly, ClientIdPreferred}
    THEN Failed(conf, "HashStrategy must be [0], [1] or [2]")
    ELSE IF /\ Deref(conf.HashStrategy) \in {ClientIdOnly, ClientIdPreferred}
            /\ (conf.HashHeader = None \/ Len(Deref(conf.HashHeader)) = 0)
    THEN Failed(conf, "no HashHeader")
    ELSE IF /\ Deref(conf.HashStrategy) \in {ClientIdOnly, ClientIdPreferred}
            /\ GetCookieKey(Deref(conf.HashHeader)).ok
            /\ Len(GetCookieKey(Deref(conf.HashHeader)).key) = 0
    THEN Failed(conf, "invalid HashHeader")
    ELSE Checked(Defaulted(conf, "SessionSticky", FALSE))

\* defaultHashConf of GslbBasicConfCheck
defaultHashConf ==
    [HashStrategy |-> Some(ClientIpOnly), HashHeader |-> None,
     SessionSticky |-> Some(FALSE)]

\* GslbBasicConfCheck(conf): the check of the balance mode
GslbBalanceMode(conf) ==
    IF Deref(conf.BalanceMode) \in {BalanceModeWrr, BalanceModeWlc}
    THEN Checked(conf)
    ELSE Failed(conf, "unsupport bal mode")

GslbBalanceCheck(conf) ==
    GslbBalanceMode([conf EXCEPT !.BalanceMode =
                                    Some(ToUpper(Deref(conf.BalanceMode)))])

\* GslbBasicConfCheck(conf): after HashConfCheck has returned h
GslbHashChecked(conf, h) ==
    IF h.err # <<>>
    THEN [err |-> h.err, conf |-> [conf EXCEPT !.HashConf = Some(h.conf)]]
    ELSE GslbBalanceCheck(Defaulted([conf EXCEPT !.HashConf = Some(h.conf)],
                                    "BalanceMode", BalanceModeWrr))

GslbHashCheck(conf) == GslbHashChecked(conf, HashConfCheck(Deref(conf.HashConf)))

\* GslbBasicConfCheck(conf)
GslbBasicConfCheck(conf) ==
    IF conf.CrossRetry = None THEN Failed(conf, "no CrossRetry")
    ELSE IF conf.RetryMax = None THEN Failed(conf, "no RetryMax")
    ELSE GslbHashCheck(Defaulted(conf, "HashConf", defaultHashConf))

\* ClusterBasicConfCheck(conf)
ClusterBasicConfCheck(conf) ==
    IF \/ conf.TimeoutReadClientAgain = None
       \/ conf.TimeoutReadClient = None
       \/ conf.TimeoutWriteClient = None
    THEN Failed(conf, "timeout configure error")
    ELSE Checked(Defaulted(Defaulted(Defaulted(Defaulted(conf,
             "ReqWriteBufferSize", 512), "ReqFlushInterval", 0),
             "ResFlushInterval", 20), "CancelOnClientClose", FALSE))

\* ClusterConfCheck(conf): the sections in the order they are checked, and
\* the check of each
Sections == <<"BackendConf", "CheckConf", "GslbBasic", "ClusterBasic">>

SectionCheck(field, conf) ==
    CASE field = "BackendConf" -> BackendBasicCheck(conf)
      [] field = "CheckConf" -> BackendCheckCheck(conf)
      [] field = "GslbBasic" -> GslbBasicConfCheck(conf)
      [] field = "ClusterBasic" -> ClusterBasicConfCheck(conf)

\* the section's check runs on what the pointer points to, so what it fills
\* in stays
Section(conf, field, r) ==
    Wrapped(<<field>>, [err |-> r.err,
                        conf |-> [conf EXCEPT ![field] = Some(r.conf)]])

RECURSIVE CheckSections(_, _)
CheckSections(conf, fields) ==
    IF fields = <<>> THEN Checked(conf)
    ELSE IF conf[Head(fields)] = None THEN Failed(conf, <<"no", Head(fields)>>)
    ELSE LET r == Section(conf, Head(fields),
                          SectionCheck(Head(fields), Deref(conf[Head(fields)])))
         IN  IF r.err # <<>> THEN r ELSE CheckSections(r.conf, Tail(fields))

\* ClusterConfCheck(conf)
ClusterConfCheck(conf) == CheckSections(conf, Sections)

\* ClusterToConfCheck(conf): the clusters of the map in the order the range
\* visits them, up to the first that fails
RECURSIVE ClusterToConfCheck(_, _)
ClusterToConfCheck(conf, order) ==
    IF order = <<>> THEN Checked(conf)
    ELSE LET name == Head(order)
             r == ClusterConfCheck(conf[name])
             after == [conf EXCEPT ![name] = r.conf]
         IN  IF r.err # <<>>
             THEN Wrapped(<<"conf for", name>>, [r EXCEPT !.conf = after])
             ELSE ClusterToConfCheck(after, Tail(order))

\* the orders in which a range over the map can visit its keys
Orders(names) ==
    {o \in UNION {[1 .. n -> names] : n \in {Cardinality(names)}} :
        \A a, b \in DOMAIN o : a # b => o[a] # o[b]}

\* BfeClusterConfCheck(conf)
BfeClusterConfCheck(conf, order) ==
    IF conf = None THEN Failed(conf, "nil BfeClusterConf")
    ELSE IF Deref(conf).Version = None THEN Failed(conf, "no Version")
    ELSE IF Deref(conf).Config = None THEN Failed(conf, "no Config")
    ELSE LET r == ClusterToConfCheck(Deref(Deref(conf).Config), order)
             after == Some([Deref(conf) EXCEPT !.Config = Some(r.conf)])
         IN  Wrapped(<<"BfeClusterConf.Config">>, [r EXCEPT !.conf = after])

\* LoadAndCheck after the file is decoded: the check, run at most MaxChecks
\* times on the same configuration
CheckCluster ==
    /\ clRuns < MaxChecks
    /\ \E order \in Orders(IF clConf # None /\ Deref(clConf).Config # None
                           THEN DOMAIN Deref(Deref(clConf).Config)
                           ELSE {}) :
           LET r == BfeClusterConfCheck(clConf, order)
           IN  /\ clConf' = r.conf
               /\ clErr' = r.err
    /\ clPrev' = clConf
    /\ clRuns' = clRuns + 1
    /\ UNCHANGED <<condExpr, condErrs, condChecked>>

\* ---- the configurations checked: one in which every field is set and
\* valid, with up to MaxEdits fields replaced

BaseCluster ==
    [BackendConf |-> Some([TimeoutConnSrv |-> Some(2000),
                           TimeoutResponseHeader |-> Some(50000),
                           MaxIdleConnsPerHost |-> Some(0),
                           RetryLevel |-> Some(RetryConnect)]),
     CheckConf |-> Some([Schem |-> Some("http"),
                         Uri |-> Some(<<"/", "s">>),
                         Host |-> Some("h"),
                         StatusCode |-> Some(200),
                         FailNum |-> Some(10),
                         SuccNum |-> Some(3),
                         CheckTimeout |-> Some(100),
                         CheckInterval |-> Some(1000)]),
     GslbBasic |-> Some([CrossRetry |-> Some(0),
                         RetryMax |-> Some(2),
                         HashConf |-> Some([HashStrategy |-> Some(ClientIpOnly),
                                            HashHeader |-> Some(<<"I", "d">>),
                                            SessionSticky |-> Some(TRUE)]),
                         BalanceMode |-> Some(BalanceModeWrr)]),
     ClusterBasic |-> Some([TimeoutReadClient |-> Some(30000),
                            TimeoutWriteClient |-> Some(60000),
                            TimeoutReadClientAgain |-> Some(30000),
                            ReqWriteBufferSize |-> Some(1024),
                            ReqFlushInterval |-> Some(10),
                            ResFlushInterval |-> Some(0),
                            CancelOnClientClose |-> Some(TRUE)])]

SectionNames == {Sections[k] : k \in DOMAIN Sections}

\* the values a field is replaced by, nil apart
EditValues(field) ==
    CASE field = "RetryLevel" -> {RetryGet, 2, 0 - 1}
      [] field = "Schem" -> {"tcp", "HTTP", "https"}
      [] field = "Uri" -> {<<"s">>, <<>>}
      [] field = "StatusCode" -> {AnyStatusCode, 31, 32, 99, 599, 600, 0 - 1}
      [] field = "SuccNum" -> {0, 1}
      [] field = "BalanceMode" ->
             {BalanceModeWlc, <<"w", "l", "c">>, <<"W", "r", "r">>,
              <<"R", "R">>, <<>>}
      [] OTHER -> {}

HashEditValues(field) ==
    CASE field = "HashStrategy" -> {ClientIdOnly, ClientIdPreferred, 3, 0 - 1}
      [] field = "HashHeader" ->
             {<<>>, <<"C", ":", "k">>, <<"C", ":">>, <<"C", ":", " ">>}
      [] OTHER -> {}

\* an edit: the path of a field and the pointer put there
FieldEdits(path, values) ==
    {[path |-> path, to |-> p] : p \in {None} \cup {Some(v) : v \in values}}

Edits ==
    {[path |-> <<s>>, to |-> None] : s \in SectionNames}
    \cup UNION {UNION {FieldEdits(<<s, f>>, EditValues(f)) :
                           f \in DOMAIN Deref(BaseCluster[s])} :
                    s \in SectionNames}
    \cup UNION {FieldEdits(<<"GslbBasic", "HashConf", f>>, HashEditValues(f)) :
                    f \in DOMAIN Deref(Deref(BaseCluster.GslbBasic).HashConf)}

\* the cluster with one edit made; an edit under a nil pointer changes nothing
Edited(c, e) ==
    LET s == e.path[1]
    IN  IF Len(e.path) = 1 THEN [c EXCEPT ![s] = e.to]
        ELSE IF c[s] = None THEN c
        ELSE IF Len(e.path) = 2
        THEN [c EXCEPT ![s] = Some([Deref(c[s]) EXCEPT ![e.path[2]] = e.to])]
        ELSE IF Deref(c[s])[e.path[2]] = None THEN c
        ELSE [c EXCEPT ![s] = Some([Deref(c[s]) EXCEPT ![e.path[2]] =
                 Some([Deref(Deref(c[s])[e.path[2]])
                          EXCEPT ![e.path[3]] = e.to])])]

RECURSIVE EditedAll(_, _)
EditedAll(c, es) ==
    IF es = <<>> THEN c ELSE EditedAll(Edited(c, Head(es)), Tail(es))

EditLists(n) == UNION {[1 .. k -> Edits] : k \in 0 .. n}

ClusterConfs(n) == {EditedAll(BaseCluster, es) : es \in EditLists(n)}

\* the maps of one cluster with up to MaxEdits edits, of two clusters with
\* up to one edit each, and the empty map
ClusterToConfs ==
    {[n \in {"c1"} |-> c] : c \in ClusterConfs(MaxEdits)}
    \cup {[n \in {"c1", "c2"} |-> IF n = "c1" THEN c ELSE d] :
             c \in ClusterConfs(1), d \in ClusterConfs(1)}
    \cup {[n \in {} |-> BaseCluster]}

BfeClusterConfs ==
    {None, Some([Version |-> None, Config |-> None]),
     Some([Version |-> Some("v1"), Config |-> None]),
     Some([Version |-> None, Config |-> Some([n \in {"c1"} |-> BaseCluster])])}
    \cup {Some([Version |-> Some("v1"), Config |-> Some(m)]) :
             m \in ClusterToConfs}

InitClusterConf ==
    /\ clConf \in BfeClusterConfs
    /\ clErr = <<>>
    /\ clPrev = None
    /\ clRuns = 0

IdleCluster ==
    /\ clConf = None
    /\ clErr = <<>>
    /\ clPrev = None
    /\ clRuns = MaxChecks

IdleLoad == IdleCond /\ IdleCluster

\* ---- Setting.Valid (bfe_http2/http2.go)

\* SettingID
SettingEnablePush == 2
SettingInitialWindowSize == 4
SettingMaxFrameSize == 5

\* the bounds of MAX_FRAME_SIZE: 16384 and 1<<24 - 1
MaxFrameSizeLimit == 16777215

\* a uint32 as its top bit and its other 31 bits: hi * 2^31 + lo
Uint32(hi, lo) == [hi |-> hi, lo |-> lo]
\* the comparison of the low 31 bits alone
AboveLow(v, c) == v.lo > c
\* v > c and v < c for a constant c below 2^31
Above(v, c) == v.hi = 1 \/ v.lo > c
Below(v, c) == v.hi = 0 /\ v.lo < c

\* ConnectionError{code, ...}; "" is a nil error
\* Setting.Valid()
Valid(s) ==
    CASE s.ID = SettingEnablePush ->
             IF s.Val # Uint32(0, 1) /\ s.Val # Uint32(0, 0)
             THEN "PROTOCOL_ERROR" ELSE ""
      [] s.ID = SettingInitialWindowSize ->
             IF Above(s.Val, MaxWindowSize)
             THEN "FLOW_CONTROL_ERROR" ELSE ""
      [] s.ID = SettingMaxFrameSize ->
             IF \/ Below(s.Val, initialMaxFrameSize)
                \/ Above(s.Val, MaxFrameSizeLimit)
             THEN "PROTOCOL_ERROR" ELSE ""
      [] OTHER -> ""

\* ---- the outbound request (bfe_server/reverseproxy.go)

\* hopHeaders
hopHeaders ==
    <<"Connection", "Keep-Alive", "Proxy-Authenticate", "Proxy-Authorization",
      "Te", "Trailers", "Transfer-Encoding", "Upgrade">>

\* a bfe_http.Header is a map from a canonical key to the sequence of its
\* values; a request points to its map, and heap holds the maps pointed to

\* Header.Get(key): the first value of the key, "" when there is none
Get(h, key) == IF key \in DOMAIN h /\ h[key] # <<>> THEN h[key][1] ELSE ""

\* Header.Del(key)
Del(h, key) == [k \in DOMAIN h \ {key} |-> h[k]]

\* CopyHeader(dst, src): every value of src added to dst
CopyHeader(dst, src) ==
    [k \in DOMAIN dst \cup DOMAIN src |->
        (IF k \in DOMAIN dst THEN dst[k] ELSE <<>>)
        \o (IF k \in DOMAIN src THEN src[k] ELSE <<>>)]

\* make(bfe_http.Header, n)
NoHeader == [k \in {} |-> <<>>]

\* *outreq = *req, then httpProtoSet(outreq)
httpProtoSet(outreq) == [outreq EXCEPT !.Proto = "HTTP/1.1", !.Close = FALSE]

\* the map outreq.Header points to once it has been copied: a new one
NewHeader(heap) == Len(heap) + 1

\* one turn of the loop of hopByHopHeaderRemove, for the header h; st holds
\* the heap, outreq and copiedHeaders
RemoveOne(st, req, h, found) ==
    IF found = "" THEN st
    ELSE IF ~st.copiedHeaders
    THEN [heap |-> Append(st.heap,
                          Del(CopyHeader(NoHeader, st.heap[req.Header]), h)),
          outreq |-> [st.outreq EXCEPT !.Header = NewHeader(st.heap)],
          copiedHeaders |-> TRUE]
    ELSE [st EXCEPT !.heap[st.outreq.Header] = Del(@, h)]

RECURSIVE RemoveFrom(_, _, _)
RemoveFrom(st, req, k) ==
    IF k > Len(hopHeaders) THEN st
    ELSE RemoveFrom(RemoveOne(st, req, hopHeaders[k],
                              Get(st.heap[st.outreq.Header], hopHeaders[k])),
                    req, k + 1)

\* hopByHopHeaderRemove(outreq, req)
hopByHopHeaderRemove(heap, outreq, req) ==
    RemoveFrom([heap |-> heap, outreq |-> outreq, copiedHeaders |-> FALSE],
               req, 1)

\* no call under way
\* =================================================================
\* ReverseProxy: getTransport and setTransports (bfe_server)
\* =================================================================
MaxCalls == 3

\* the goroutines serving requests call getTransport, the one reloading the
\* configuration calls setTransports
Getters == {"g1", "g2"}

Setters == {"s1"}

Goroutines == Getters \cup Setters

TransportOrder == <<"ca", "cb">>

TransportNames == {TransportOrder[k] : k \in DOMAIN TransportOrder}

TransportRank(c) == CHOOSE k \in DOMAIN TransportOrder : TransportOrder[k] = c

\* the settings of a cluster that a transport is made from
\* (MaxIdleConnsPerHost, TimeoutResponseHeader, ReqWriteBufferSize,
\* ReqFlushInterval)
TransportConfs == {"v1", "v2"}

NoTransport == [id |-> 0, conf |-> ""]

EmptyTransports == [c \in {} |-> NoTransport]

\* a clusterMap: cluster name -> cluster
ClusterMaps == UNION {[d -> TransportConfs] : d \in SUBSET TransportNames}

\* a goroutine in neither function
IdleGoroutine ==
    [pc |-> "idle", cluster |-> [Name |-> "", conf |-> ""],
     clusterMap |-> [c \in {} |-> ""], transport |-> NoTransport,
     newTransports |-> EmptyTransports, acc |-> "none"]

\* createTransport: a transport that no other call has returned
createTransport(n, conf) == [id |-> n, conf |-> conf]

\* m[key] = t
Put(m, key, t) == [c \in DOMAIN m \cup {key} |-> IF c = key THEN t ELSE m[c]]

\* goroutine p starts an access of the given kind to the map while another
\* goroutine is in an access, one of the two a write: a data race
Conflict(p, kind) ==
    \E q \in Goroutines \ {p} :
        /\ tsProc[q].acc # "none"
        /\ kind = "write" \/ tsProc[q].acc = "write"

\* the start of an access; on a data race the run-time may end the program
\* (fatal error: concurrent map writes, concurrent map read and map write) or
\* not notice
Access(p, kind, to) ==
    /\ tsProc' = [tsProc EXCEPT ![p].acc = kind, ![p].pc = to]
    /\ tsFatal' \in (IF Conflict(p, kind) THEN BOOLEAN ELSE {FALSE})

\* sync.RWMutex: RLock is granted while no goroutine holds the write lock, Lock
\* while no goroutine holds either
CanRLock(mu) == mu.w = ""

CanLock(mu) == mu.w = "" /\ mu.r = {}

\* getTransport: p.tsMu.RLock()
GetRLock(g) ==
    /\ ~tsFatal
    /\ tsProc[g].pc = "idle"
    /\ tsHist.calls < MaxCalls
    /\ CanRLock(tsMu)
    /\ \E name \in TransportNames, conf \in TransportConfs :
          tsProc' = [tsProc EXCEPT ![g].pc = "rlocked",
                                   ![g].cluster = [Name |-> name, conf |-> conf]]
    /\ tsMu' = [tsMu EXCEPT !.r = @ \cup {g}]
    /\ tsHist' = [tsHist EXCEPT !.calls = @ + 1]
    /\ UNCHANGED <<transports, tsFatal>>

\* transport, ok := p.transports[cluster.Name]: the read starts
GetLookup(g) ==
    /\ ~tsFatal
    /\ tsProc[g].pc = "rlocked"
    /\ Access(g, "read", "lookup")
    /\ UNCHANGED <<tsMu, transports, tsHist>>

\* ... and ends; if !ok { transport = createTransport(cluster)
GetLookupEnd(g) ==
    /\ ~tsFatal
    /\ tsProc[g].pc = "lookup"
    /\ LET name == tsProc[g].cluster.Name
       IN  IF name \in DOMAIN transports
           THEN /\ tsProc' = [tsProc EXCEPT ![g].acc = "none",
                                            ![g].pc = "return",
                                            ![g].transport = transports[name]]
                /\ UNCHANGED tsHist
           ELSE /\ tsProc' = [tsProc EXCEPT
                                 ![g].acc = "none",
                                 ![g].pc = "created",
                                 ![g].transport =
                                     createTransport(tsHist.next, tsProc[g].cluster.conf)]
                /\ tsHist' = [tsHist EXCEPT !.next = @ + 1]
    /\ UNCHANGED <<tsMu, transports, tsFatal>>

\* p.transports[cluster.Name] = transport: the write starts
GetStore(g) ==
    /\ ~tsFatal
    /\ tsProc[g].pc = "created"
    /\ Access(g, "write", "store")
    /\ UNCHANGED <<tsMu, transports, tsHist>>

\* ... and ends
GetStoreEnd(g) ==
    /\ ~tsFatal
    /\ tsProc[g].pc = "store"
    /\ transports' = Put(transports, tsProc[g].cluster.Name, tsProc[g].transport)
    /\ tsProc' = [tsProc EXCEPT ![g].acc = "none", ![g].pc = "return"]
    /\ UNCHANGED <<tsMu, tsHist, tsFatal>>

\* return transport, and the deferred p.tsMu.RUnlock()
GetReturn(g) ==
    /\ ~tsFatal
    /\ tsProc[g].pc = "return"
    /\ tsMu' = [tsMu EXCEPT !.r = @ \ {g}]
    /\ tsHist' = [tsHist EXCEPT !.got[tsProc[g].cluster.Name] =
                                    @ \cup {tsProc[g].transport.id}]
    /\ tsProc' = [tsProc EXCEPT ![g] = IdleGoroutine]
    /\ UNCHANGED <<transports, tsFatal>>

getTransport(g) ==
    \/ GetRLock(g)
    \/ GetLookup(g)
    \/ GetLookupEnd(g)
    \/ GetStore(g)
    \/ GetStoreEnd(g)
    \/ GetReturn(g)

\* setTransports: p.tsMu.Lock()
SetLock(s) ==
    /\ ~tsFatal
    /\ tsProc[s].pc = "idle"
    /\ tsHist.calls < MaxCalls
    /\ CanLock(tsMu)
    /\ \E clusterMap \in ClusterMaps :
          tsProc' = [tsProc EXCEPT ![s].pc = "locked", ![s].clusterMap = clusterMap]
    /\ tsMu' = [tsMu EXCEPT !.w = s]
    /\ tsHist' = [tsHist EXCEPT !.calls = @ + 1]
    /\ UNCHANGED <<transports, tsFatal>>

\* the loop over clusterMap reads p.transports: the reads start
SetRead(s) ==
    /\ ~tsFatal
    /\ tsProc[s].pc = "locked"
    /\ Access(s, "read", "reading")
    /\ UNCHANGED <<tsMu, transports, tsHist>>

\* the cluster has no transport, or one made from other settings
NeedsTransport(m, c, conf) == c \notin DOMAIN m \/ m[c].conf # conf

\* ... and end: newTransports holds, for every cluster of clusterMap, its
\* transport in p.transports or a new one
SetBuild(s) ==
    /\ ~tsFatal
    /\ tsProc[s].pc = "reading"
    /\ LET clusterMap == tsProc[s].clusterMap
           made == {c \in DOMAIN clusterMap :
                       NeedsTransport(transports, c, clusterMap[c])}
           nth(c) == Cardinality({d \in made : TransportRank(d) < TransportRank(c)})
       IN  /\ tsProc' = [tsProc EXCEPT
                            ![s].acc = "none",
                            ![s].pc = "built",
                            ![s].newTransports =
                                [c \in DOMAIN clusterMap |->
                                    IF c \in made
                                    THEN createTransport(tsHist.next + nth(c),
                                                         clusterMap[c])
                                    ELSE transports[c]]]
           /\ tsHist' = [tsHist EXCEPT !.next = @ + Cardinality(made)]
    /\ UNCHANGED <<tsMu, transports, tsFatal>>

\* p.transports = newTransports: the write starts
SetStore(s) ==
    /\ ~tsFatal
    /\ tsProc[s].pc = "built"
    /\ Access(s, "write", "storing")
    /\ UNCHANGED <<tsMu, transports, tsHist>>

\* ... and ends; the deferred p.tsMu.Unlock()
SetReturn(s) ==
    /\ ~tsFatal
    /\ tsProc[s].pc = "storing"
    /\ transports' = tsProc[s].newTransports
    /\ tsMu' = [tsMu EXCEPT !.w = ""]
    /\ tsHist' = [tsHist EXCEPT !.got = [c \in TransportNames |-> {}]]
    /\ tsProc' = [tsProc EXCEPT ![s] = IdleGoroutine]
    /\ UNCHANGED tsFatal

setTransports(s) ==
    \/ SetLock(s)
    \/ SetRead(s)
    \/ SetBuild(s)
    \/ SetStore(s)
    \/ SetReturn(s)

\* NewReverseProxy: rp.transports = make(RoundTripperMap); no call has begun
InitTransports ==
    /\ tsMu = [w |-> "", r |-> {}]
    /\ transports = EmptyTransports
    /\ tsProc = [p \in Goroutines |-> IdleGoroutine]
    /\ tsHist = [next |-> 1, got |-> [c \in TransportNames |-> {}], calls |-> 0]
    /\ tsFatal = FALSE

IdleFn ==
    /\ fnArgs = <<>>
    /\ fnRet = <<>>

IdleMore == IdleFn /\ InitTransports

\* =================================================================
\* ReverseProxy: ServeHTTP, clusterInvoke, FinishReq (bfe_server)
\* =================================================================

Nil == "nil"
Backends == {"b1", "b2"}
Methods == {"GET", "POST"}
\* outreq.Body: nil, bfe_http.EofReader, a *bfe_spdy.RequestBody at or before
\* its end, or any other reader
Bodies == {"nil", "EofReader", "spdyEof", "spdyOpen", "other"}
RetryLevels == {RetryConnect, RetryGet}
\* values of RetryMax and CrossRetry: small ones, and one beyond the loop limit
RetryConfs == (0 .. MaxRetryConf) \cup {LoopLimit}

RetryableByLevel ==
    {"WriteRequestError", "ReadRespHeaderError", "RespHeaderTimeoutError",
     "TransportBrokenError"}
\* the errors RoundTrip returns; OtherError is any type the switch does not name
RoundTripErrors == {"ConnectError", "OtherError"} \cup RetryableByLevel

RequestPhases == {"BeforeLocation", "FoundProduct", "AfterLocation"}
\* the phases whose dispatch ServeHTTP itself makes, once per request
Phases == RequestPhases \cup {"ReadBackend"}

\* the response a request-phase callback hands back
CbRes(phase) ==
    CASE phase = "BeforeLocation" -> "cbBeforeLocation"
      [] phase = "FoundProduct"   -> "cbFoundProduct"
      [] phase = "AfterLocation"  -> "cbAfterLocation"

\* the dispatch of a phase has returned verdict v
Record(phase, v) ==
    verdict' = [p \in DOMAIN verdict \cup {phase} |->
                  IF p = phase THEN v ELSE verdict[p]]

Returned(phase, v) == phase \in DOMAIN verdict /\ verdict[phase] = v

Occur(e) ==
    /\ done' = done \cup {e}
    /\ ev' = e

\* ---- the switch on the verdict of a request-phase dispatch
VerdictTargetNoResponseCase(v, next) ==
    CASE v = BFE_HANDLER_CLOSE    -> "quit"
      [] v = BFE_HANDLER_FINISH   -> "quit"
      [] v = BFE_HANDLER_REDIRECT -> "redirect"
      [] OTHER                    -> next

VerdictTarget(v, next) ==
    CASE v = BFE_HANDLER_CLOSE    -> "quit"
      [] v = BFE_HANDLER_FINISH   -> "quit"
      [] v = BFE_HANDLER_REDIRECT -> "redirect"
      [] v = BFE_HANDLER_RESPONSE -> "response_got"
      [] OTHER                    -> next

VerdictActionCloseAsFinish(v, act) ==
    CASE v = BFE_HANDLER_CLOSE  -> "closeAfterReply"
      [] v = BFE_HANDLER_FINISH -> "closeAfterReply"
      [] OTHER                  -> act

VerdictAction(v, act) ==
    CASE v = BFE_HANDLER_CLOSE  -> "closeDirectly"
      [] v = BFE_HANDLER_FINISH -> "closeAfterReply"
      [] OTHER                  -> act

\* hl.FilterRequest(basicReq) and the switch that follows it.  The handler
\* list returns any verdict and, as res, nil or a response of its callbacks.
RequestFilterSwitch(phase, next) ==
    \E v \in Verdicts, r \in {Nil, CbRes(phase)} :
        /\ res' = r
        /\ httpResponse' = r
        /\ Record(phase, v)
        /\ Occur(phase)
        /\ action' = VerdictAction(v, action)
        /\ pc' = VerdictTarget(v, next)
        /\ UNCHANGED <<hlVars, confVars, onFailCalls, onSuccessCalls, err, isRedirect, errCode, errMsg, routeErr, i,
                       retryTime, transBackend, reqBackend, stat, netConn, panicked, finishAction,
                       attempts, balanceCalls, forwardCalls, lastErr,
                       onRespArg, written, forwardFinish>>

DispatchBeforeLocation ==
    /\ pc = "before_location"
    /\ RequestFilterSwitch("BeforeLocation", "find_product")

DispatchFoundProduct ==
    /\ pc = "found_product"
    /\ RequestFilterSwitch("FoundProduct", "find_cluster")

DispatchAfterLocation ==
    /\ pc = "after_location"
    /\ RequestFilterSwitch("AfterLocation", "build_outreq")

\* Redirect(rw, req, url, code); isRedirect = true; goto send_response
Redirect ==
    /\ pc = "redirect"
    /\ written' = "redirect"
    /\ isRedirect' = TRUE
    /\ Occur("write")
    /\ pc' = "send_response"
    /\ UNCHANGED <<hlVars, confVars, onFailCalls, onSuccessCalls, action, res, err, httpResponse, errCode, errMsg,
                   routeErr, i, retryTime, transBackend, reqBackend, stat, netConn, panicked,
                   finishAction, attempts, balanceCalls, forwardCalls, lastErr,
                   verdict, onRespArg, forwardFinish>>

\* a routing failure: ErrCode is set, a 500 response is created (and stored
\* in request.HttpResponse), the connection is to be closed after the reply
RouteFailure(e, code) ==
    /\ routeErr' = e
    /\ errCode' = code
    /\ errMsg' = "msg"
    /\ res' = "resp500"
    /\ httpResponse' = "resp500"
    /\ action' = "closeAfterReply"

\* goto response_got after a failed lookup
FindProductNextAfterFailure(failed) == "found_product"

FindProductNext(failed) == IF failed THEN "response_got" ELSE "found_product"

\* srv.findProduct(basicReq)
FindProduct ==
    /\ pc = "find_product"
    /\ Occur("findProduct")
    /\ \E failed \in BOOLEAN :
          IF failed
          THEN /\ RouteFailure("NoProduct", "ErrBkFindProduct")
               /\ pc' = FindProductNext(TRUE)
          ELSE /\ pc' = FindProductNext(FALSE)
               /\ UNCHANGED <<routeErr, errCode, errMsg, res, httpResponse, action>>
    /\ UNCHANGED <<hlVars, confVars, onFailCalls, onSuccessCalls, err, isRedirect, i, retryTime,
                   transBackend, reqBackend, stat, netConn, panicked, finishAction, attempts,
                   balanceCalls, forwardCalls, lastErr, verdict, onRespArg,
                   written, forwardFinish>>

\* srv.findCluster(basicReq), then serverConf.ClusterTable.Lookup(clusterName)
FindCluster ==
    /\ pc = "find_cluster"
    /\ Occur("findCluster")
    /\ \/ /\ \E e \in {"NoProductRule", "NoRuleMatch"} :
                RouteFailure(e, "ErrBkFindLocation")
          /\ pc' = "response_got"
       \/ /\ RouteFailure("NoCluster", "ErrBkNoCluster")
          /\ pc' = "response_got"
       \/ /\ pc' = "after_location"
          /\ UNCHANGED <<routeErr, errCode, errMsg, res, httpResponse, action>>
    /\ UNCHANGED <<hlVars, confVars, onFailCalls, onSuccessCalls, err, isRedirect, i, retryTime,
                   transBackend, reqBackend, stat, netConn, panicked, finishAction, attempts,
                   balanceCalls, forwardCalls, lastErr, verdict, onRespArg,
                   written, forwardFinish>>

\* outreq = copy of req; httpProtoSet; hopByHopHeaderRemove
BuildOutReq ==
    /\ pc = "build_outreq"
    /\ Occur("buildOutReq")
    /\ pc' = "invoke"
    /\ UNCHANGED <<hlVars, confVars, onFailCalls, onSuccessCalls, action, res, err, isRedirect, httpResponse,
                   errCode, errMsg, routeErr, i, retryTime, transBackend, reqBackend, stat, netConn,
                   panicked, finishAction, attempts, balanceCalls, forwardCalls,
                   lastErr, verdict, onRespArg, written, forwardFinish>>

\* ---- clusterInvoke

\* entry of clusterInvoke: the named results start nil; srv.balTable.Lookup
InvokeStart ==
    /\ pc = "invoke"
    /\ res' = Nil
    /\ i' = 0
    /\ \E found \in BOOLEAN :
          IF found
          THEN /\ err' = Nil
               /\ pc' = "balance"
               /\ UNCHANGED <<errCode, errMsg, action>>
          ELSE /\ err' = "ErrNoBalance"
               /\ errCode' = "ErrBkNoCluster"
               /\ errMsg' = "msg"
               /\ action' = "closeAfterReply"
               /\ pc' = "invoke_ret"
    /\ UNCHANGED <<hlVars, confVars, isRedirect, httpResponse, routeErr,
                   retryTime, transBackend, reqBackend, stat, netConn, panicked, finishAction,
                   histVars>>

\* the condition of the retry loop
LoopCondOneMore(n) == n <= LoopLimit

LoopCond(n) == n < LoopLimit

\* i++ and the loop condition: the next iteration, or the end of the loop
LoopNextNoBalance(n) == IF LoopCond(n + 1) THEN "forward" ELSE "invoke_ret"

LoopNext(n) == IF LoopCond(n + 1) THEN "balance" ELSE "invoke_ret"

\* request.RetryTime += 1
NextRetryTimeStuck(rt) == rt

NextRetryTime(rt) == rt + 1

\* what Balance may return: a backend, ErrBkCrossRetryBalance, or another error
AnyBalanceResult == Backends \cup {"cross", "error"}

\* The balancer's retry policy by request.RetryTime: retries inside the
\* sub-cluster up to RetryMax, then across sub-clusters up to CrossRetry,
\* then none.
GslbBalanceResult(rt) ==
    IF rt > retryMax + crossRetry
    THEN {"error"}
    ELSE IF rt <= retryMax
         THEN Backends \cup (IF crossRetry > 0 THEN {"cross"} ELSE {"error"})
         ELSE Backends \cup {"cross", "error"}

\* one iteration of the loop up to SetRequestTransport.  Balance is handed the
\* request: when it fails it may or may not have recorded an error in it
\* (clusterInvoke itself only logs).
BalanceStep(results) ==
    /\ pc = "balance"
    /\ balanceCalls' = balanceCalls + 1
    /\ Occur("Balance")
    /\ \E r \in results :
          \/ /\ r = "cross"
             /\ err' = "ErrBkCrossRetryBalance"
             /\ retryTime' = NextRetryTime(retryTime)
             /\ i' = i + 1
             /\ pc' = LoopNext(i)
             /\ UNCHANGED <<transBackend, reqBackend, stat, netConn, errCode, errMsg>>
          \/ /\ r = "error"
             /\ err' = "ErrBalance"
             /\ pc' = "invoke_ret"
             /\ \E recorded \in BOOLEAN :
                   IF recorded
                   THEN errCode' = "ErrBkBalance" /\ errMsg' = "msg"
                   ELSE UNCHANGED <<errCode, errMsg>>
             /\ UNCHANGED <<retryTime, i, transBackend, reqBackend, stat, netConn>>
          \/ /\ r \in Backends
             /\ err' = Nil
             /\ UNCHANGED <<errCode, errMsg>>
             /\ netConn' = IF transBackend # Nil
                           THEN [netConn EXCEPT ![transBackend] = @ - 1]
                           ELSE netConn
             /\ transBackend' = r
             /\ pc' = "forward"
             /\ UNCHANGED <<retryTime, i, reqBackend, stat>>
    /\ UNCHANGED <<hlVars, confVars, onFailCalls, onSuccessCalls, action, res,
                   isRedirect, httpResponse, routeErr, panicked, finishAction, attempts,
                   forwardCalls, lastErr, verdict, onRespArg, written, forwardFinish>>

Balance == BalanceStep(AnyBalanceResult)

BalanceGslb == BalanceStep(GslbBalanceResult(retryTime))

\* the switch on the verdict of the HANDLE_FORWARD dispatch
ForwardTarget(v) == IF v = BFE_HANDLER_FINISH THEN "invoke_ret" ELSE "roundtrip"

\* Callback for HANDLE_FORWARD
DispatchForward ==
    /\ pc = "forward"
    /\ forwardCalls' = forwardCalls + 1
    /\ Occur("Forward")
    /\ \E v \in Verdicts :
          /\ forwardFinish' = (v = BFE_HANDLER_FINISH)
          /\ action' = IF v = BFE_HANDLER_FINISH THEN "closeAfterReply" ELSE action
          /\ pc' = ForwardTarget(v)
    /\ UNCHANGED <<hlVars, confVars, onFailCalls, onSuccessCalls, res, err, isRedirect, httpResponse,
                   errCode, errMsg, routeErr, i, retryTime, transBackend, reqBackend, stat, netConn,
                   panicked, finishAction, attempts, balanceCalls, lastErr,
                   verdict, onRespArg, written>>

checkRequestWithoutBody(b) == b \in {"nil", "EofReader", "spdyEof"}

checkAllowRetryAnyMethod(level, m, b) ==
    level = RetryGet /\ checkRequestWithoutBody(b)

checkAllowRetry(level, m, b) ==
    level = RetryGet /\ m = "GET" /\ checkRequestWithoutBody(b)

\* the switch on the type of the RoundTrip error: allowRetry
AllowRetry(e, level, m, b) ==
    CASE e = "ConnectError"    -> TRUE
      [] e \in RetryableByLevel -> checkAllowRetry(level, m, b)
      [] OTHER                 -> FALSE

\* ... and request.ErrCode (the default branch leaves it alone)
ErrCodeOf(e, old) ==
    CASE e = "ConnectError"           -> "ErrBkConnectBackend"
      [] e = "WriteRequestError"      -> "ErrBkWriteRequest"
      [] e = "ReadRespHeaderError"    -> "ErrBkReadRespHeader"
      [] e = "RespHeaderTimeoutError" -> "ErrBkRespHeaderTimeout"
      [] e = "TransportBrokenError"   -> "ErrBkTransportBroken"
      [] OTHER                        -> old

\* ... and request.ErrMsg = err.Error()
ErrMsgOf(e, old) == IF e \in {"ConnectError"} \cup RetryableByLevel THEN "msg" ELSE old

\* the number of backend.OnFail calls the switch makes for error e; a
\* WriteRequestError counts only when it is not an error of the client side
\* (rerr.CheckTargetError(request.RemoteAddr) is false)
OnFailCount(e, targetError) ==
    CASE e \in {"ConnectError", "ReadRespHeaderError", "RespHeaderTimeoutError"} -> 1
      [] e = "WriteRequestError" -> IF targetError THEN 0 ELSE 1
      [] OTHER -> 0

\* request.Stat.BackendFirst after BackendStart is set to now in iteration n
\* of the loop: `if i == 0 { BackendFirst = BackendStart }`
FirstTry(n, first, now) == IF n = 0 THEN now ELSE first

\* request.ErrCode after a RoundTrip that returned no error
ErrCodeKept(old) == old

ErrCodeOnSuccess(old) == Nil

\* AddConnNum, RoundTrip, and the handling of its result to the end of the
\* iteration
RoundTrip ==
    /\ pc = "roundtrip"
    /\ netConn' = [netConn EXCEPT ![transBackend] = @ + 1]
    /\ attempts' = attempts + 1
    /\ stat' = [BackendStart |-> attempts + 1,
                BackendFirst |-> FirstTry(i, stat.BackendFirst, attempts + 1)]
    /\ reqBackend' = transBackend
    /\ Occur("RoundTrip")
    /\ \/ /\ res' = "respBackend"
          /\ err' = Nil
          /\ errCode' = ErrCodeOnSuccess(errCode)
          /\ errMsg' = ""
          /\ onSuccessCalls' = [b \in Backends |-> IF b = transBackend THEN 1 ELSE 0]
          /\ onFailCalls' = [b \in Backends |-> 0]
          /\ pc' = "invoke_ret"
          /\ UNCHANGED <<lastErr, retryTime, i>>
       \/ \E e \in RoundTripErrors, targetError \in BOOLEAN :
             /\ res' = Nil
             /\ err' = e
             /\ lastErr' = e
             /\ errCode' = ErrCodeOf(e, errCode)
             /\ errMsg' = ErrMsgOf(e, errMsg)
             /\ onSuccessCalls' = [b \in Backends |-> 0]
             /\ onFailCalls' = [b \in Backends |->
                    IF b = transBackend THEN OnFailCount(e, targetError) ELSE 0]
             /\ IF AllowRetry(e, retryLevel, method, body)
                THEN /\ retryTime' = NextRetryTime(retryTime)
                     /\ i' = i + 1
                     /\ pc' = LoopNext(i)
                ELSE /\ pc' = "invoke_ret"
                     /\ UNCHANGED <<retryTime, i>>
    /\ UNCHANGED <<hlVars, confVars, action, isRedirect, httpResponse,
                   routeErr, transBackend, panicked, finishAction,
                   balanceCalls, forwardCalls, verdict, onRespArg, written, forwardFinish>>

\* ServeHTTP after clusterInvoke has returned (res, action, err): an error
\* gives the 500 response; otherwise the deferred res.Body.Close() is set up,
\* which dereferences res: a nil res with a nil err is a run-time panic
InvokeReturn ==
    /\ pc = "invoke_ret"
    /\ IF err # Nil
       THEN /\ res' = "resp500"
            /\ httpResponse' = "resp500"
            /\ pc' = "response_got"
            /\ UNCHANGED panicked
       ELSE IF res = Nil
            THEN /\ httpResponse' = res
                 /\ panicked' = TRUE
                 /\ pc' = "quit"
                 /\ UNCHANGED res
            ELSE /\ httpResponse' = res
                 /\ pc' = "response_got"
                 /\ UNCHANGED <<res, panicked>>
    /\ UNCHANGED <<hlVars, confVars, action, err, isRedirect, errCode, errMsg, routeErr,
                   i, retryTime, transBackend, reqBackend, stat, netConn, finishAction, histVars>>

\* the switch on the verdict of the HANDLE_READ_BACKEND dispatch
ReadBackendTarget(v) ==
    CASE v = BFE_HANDLER_FINISH   -> "quit"
      [] v = BFE_HANDLER_REDIRECT -> "redirect"
      [] OTHER                    -> "send_response"

\* response_got: Callback for HANDLE_READ_BACKEND
DispatchReadBackend ==
    /\ pc = "response_got"
    /\ onRespArg' = res
    /\ Occur("ReadBackend")
    /\ \E v \in Verdicts :
          /\ Record("ReadBackend", v)
          /\ action' = IF v = BFE_HANDLER_FINISH THEN "closeAfterReply" ELSE action
          /\ pc' = ReadBackendTarget(v)
    /\ UNCHANGED <<hlVars, confVars, onFailCalls, onSuccessCalls, res, err, isRedirect, httpResponse,
                   errCode, errMsg, routeErr, i, retryTime, transBackend, reqBackend, stat, netConn,
                   panicked, finishAction, attempts, balanceCalls, forwardCalls,
                   lastErr, written, forwardFinish>>

\* send_response: sendResponse unless redirected or res is nil; a failed write
\* closes the connection unless the protocol multiplexes (h2, spdy)
SendResponse ==
    /\ pc = "send_response"
    /\ pc' = "quit"
    /\ IF ~isRedirect /\ res # Nil
       THEN /\ written' = res
            /\ Occur("write")
            /\ \E failed \in BOOLEAN,
                  multiplex \in (IF body \in {"spdyEof", "spdyOpen"}
                                 THEN {TRUE} ELSE BOOLEAN) :
                  IF failed
                  THEN /\ action' = IF multiplex THEN action ELSE "closeAfterReply"
                       /\ errCode' = "ErrClientWrite"
                       /\ errMsg' = "msg"
                  ELSE UNCHANGED <<action, errCode, errMsg>>
       ELSE UNCHANGED <<written, done, ev, action, errCode, errMsg>>
    /\ UNCHANGED <<hlVars, confVars, onFailCalls, onSuccessCalls, res, err, isRedirect, httpResponse,
                   routeErr, i, retryTime, transBackend, reqBackend, stat, netConn, panicked,
                   finishAction, attempts, balanceCalls, forwardCalls, lastErr,
                   verdict, onRespArg, forwardFinish>>

\* FinishReq, invoked after ServeHTTP has quit: the HANDLE_REQUEST_FINISH
\* callbacks, then the deferred DecConnNum of request.Trans.Backend
FinishReq ==
    /\ pc = "quit"
    /\ pc' = "finished"
    /\ Occur("RequestFinish")
    /\ \E v \in Verdicts :
          finishAction' =
              IF v = BFE_HANDLER_FINISH THEN "closeAfterReply" ELSE "none"
    /\ netConn' = IF transBackend # Nil
                  THEN [netConn EXCEPT ![transBackend] = @ - 1]
                  ELSE netConn
    /\ UNCHANGED <<hlVars, confVars, onFailCalls, onSuccessCalls, action, res, err, isRedirect, httpResponse,
                   errCode, errMsg, routeErr, i, retryTime, transBackend, reqBackend, stat, panicked,
                   attempts, balanceCalls, forwardCalls, lastErr, verdict,
                   forwardFinish, onRespArg, written>>

\* the request and the cluster configuration it is served with
InitConf ==
    /\ retryLevel \in RetryLevels
    /\ retryMax \in RetryConfs
    /\ crossRetry \in RetryConfs
    /\ method \in Methods
    /\ body \in Bodies

\* a request ServeHTTP has not started on
InitReq ==
    /\ pc = "before_location"
    /\ action = "none"
    /\ res = Nil
    /\ err = Nil
    /\ isRedirect = FALSE
    /\ httpResponse = Nil
    /\ errCode = Nil
    /\ errMsg = ""
    /\ routeErr = Nil
    /\ i = 0
    /\ retryTime = 0
    /\ transBackend = Nil
    /\ reqBackend = Nil
    /\ stat = [BackendStart |-> 0, BackendFirst |-> 0]
    /\ netConn = [b \in Backends |-> 0]
    /\ panicked = FALSE
    /\ finishAction = "none"
    /\ attempts = 0
    /\ balanceCalls = 0
    /\ forwardCalls = 0
    /\ lastErr = Nil
    /\ verdict = [p \in {} |-> BFE_HANDLER_GOON]
    /\ forwardFinish = FALSE
    /\ done = {}
    /\ ev = "none"
    /\ onRespArg = "none"
    /\ written = "none"
    /\ onFailCalls = [b \in Backends |-> 0]
    /\ onSuccessCalls = [b \in Backends |-> 0]

\* a request and configuration that play no part (the handler list alone)
InitIdle ==
    /\ retryLevel = RetryConnect
    /\ retryMax = 0
    /\ crossRetry = 0
    /\ method = "GET"
    /\ body = "nil"

\* the request when ServeHTTP calls clusterInvoke: every dispatch so far has
\* returned GOON with a nil response, both lookups have succeeded
InitInvoke ==
    /\ pc = "invoke"
    /\ action = "none"
    /\ res = Nil
    /\ err = Nil
    /\ isRedirect = FALSE
    /\ httpResponse = Nil
    /\ errCode = Nil
    /\ errMsg = ""
    /\ routeErr = Nil
    /\ i = 0
    /\ retryTime = 0
    /\ transBackend = Nil
    /\ reqBackend = Nil
    /\ stat = [BackendStart |-> 0, BackendFirst |-> 0]
    /\ netConn = [b \in Backends |-> 0]
    /\ panicked = FALSE
    /\ finishAction = "none"
    /\ attempts = 0
    /\ balanceCalls = 0
    /\ forwardCalls = 0
    /\ lastErr = Nil
    /\ verdict = [p \in RequestPhases |-> BFE_HANDLER_GOON]
    /\ forwardFinish = FALSE
    /\ done = {"BeforeLocation", "findProduct", "FoundProduct", "findCluster",
               "AfterLocation", "buildOutReq"}
    /\ ev = "buildOutReq"
    /\ onRespArg = "none"
    /\ written = "none"
    /\ onFailCalls = [b \in Backends |-> 0]
    /\ onSuccessCalls = [b \in Backends |-> 0]

\* a request served without an HTTP/2 connection: its variables hold nothing
IdleH2 ==
    /\ h2Streams = 0
    /\ h2MaxStreamID = 0
    /\ h2Accepted = 0
    /\ h2Handler = 0
    /\ h2BodyEOF = 0
    /\ h2Hist = 0
    /\ h2Last = 0
    /\ h2GoAway = 0
    /\ h2Rst = 0
    /\ h2Recv = 0
    /\ h2Block = 0
    /\ h2LastStreamID = 0
    /\ h2Send = 0
    /\ h2In = 0
    /\ h2Body = 0

\* ... and with no reload of the routing table in progress
IdleReload ==
    /\ snap = 0
    /\ cur = 0
    /\ upd = 0
    /\ rd = 0

\* with a balancer that returns anything the retry configuration is not read
\* the components that play no part in a specification
IdleSide ==
    IdleRoute /\ InitReload /\ InitIP /\ InitH2 /\ IdleLoad /\ IdleMore

\* ... in the specifications of a request or a handler list
IdleOfRequest ==
    IdleRoute /\ IdleReload /\ InitIP /\ IdleH2 /\ IdleLoad /\ IdleMore

Init ==
    InitHL /\ InitConf /\ InitReq /\ retryMax = 0 /\ crossRetry = 0 /\ IdleOfRequest

InitGslb == InitHL /\ InitConf /\ InitInvoke /\ IdleOfRequest

InitList == InitHL /\ InitIdle /\ InitReq /\ IdleOfRequest

InitRouteProduct ==
    InitHL /\ InitIdle /\ InitReq /\ InitRoute /\ InitReload /\ InitIP /\ InitH2
    /\ IdleLoad /\ IdleMore

InitRouteCluster ==
    InitHL /\ InitIdle /\ InitReq /\ InitCluster /\ InitReload /\ InitIP /\ InitH2
    /\ IdleLoad /\ IdleMore

InitReloading == InitHL /\ InitIdle /\ InitReq /\ IdleSide

InitIPItems == InitHL /\ InitIdle /\ InitReq /\ IdleSide

InitConn == InitHL /\ InitIdle /\ InitReq /\ IdleSide

InitParsed ==
    /\ InitHL /\ InitIdle /\ InitReq
    /\ IdleRoute /\ InitReload /\ InitIP /\ InitH2
    /\ InitCond /\ IdleCluster /\ IdleMore

NextCond ==
    /\ CheckCond
    /\ UNCHANGED <<hlVars, pipelineVars, routeVars, reloadVars, ipVars, h2Vars,
                 moreVars>>

\* one request through ServeHTTP and FinishReq, the balancer returning anything
Next ==
    /\ \/ DispatchBeforeLocation
       \/ FindProduct
       \/ DispatchFoundProduct
       \/ FindCluster
       \/ DispatchAfterLocation
       \/ Redirect
       \/ BuildOutReq
       \/ InvokeStart
       \/ Balance
       \/ DispatchForward
       \/ RoundTrip
       \/ InvokeReturn
       \/ DispatchReadBackend
       \/ SendResponse
       \/ FinishReq
    /\ UNCHANGED sideVars

\* one call of clusterInvoke, the balancer following the retry policy
NextGslb ==
    /\ \/ InvokeStart
       \/ BalanceGslb
       \/ DispatchForward
       \/ RoundTrip
    /\ UNCHANGED sideVars

\* lookups on a HostTable
NextRoute ==
    /\ \/ LookupHostTagAndProduct
       \/ LookupCluster
       \/ Lookup
    /\ UNCHANGED <<hlVars, pipelineVars, reloadVars, ipVars, h2Vars, loadVars,
                 moreVars>>

\* reloads of the routing table and requests that look into it
NextReload ==
    /\ \/ ReloadStart
       \/ updateHostTable
       \/ updateVipTable
       \/ updateRouteTable
       \/ Publish
       \/ \E r \in Readers : ReaderStart(r)
       \/ \E r \in Readers : ReaderHost(r)
       \/ \E r \in Readers : ReaderVip(r)
       \/ \E r \in Readers : ReaderRoute(r)
       \/ \E r \in Readers : ReaderEnd(r)
    /\ UNCHANGED <<hlVars, pipelineVars, routeVars, ipVars, h2Vars, loadVars,
                 moreVars>>

\* an IPItems being filled and sorted
NextIP ==
    /\ \/ InsertPair
       \/ Sort
    /\ UNCHANGED <<hlVars, pipelineVars, routeVars, reloadVars, h2Vars, loadVars,
                 moreVars>>

\* the frames of one HTTP/2 connection and the handlers of its streams
NextH2 ==
    /\ \/ \E id \in StreamIDs, endStream \in BOOLEAN, endHeaders \in BOOLEAN :
              RecvHeaders(id, endStream, endHeaders)
       \/ \E id \in StreamIDs, endHeaders \in BOOLEAN : RecvContinuation(id, endHeaders)
       \/ RecvPing
       \/ \E id \in StreamIDs : RecvPushPromise(id)
       \/ \E id \in StreamIDs, endStream \in BOOLEAN : RecvData(id, endStream)
       \/ \E id \in StreamIDs : RecvRSTStream(id)
       \/ \E id \in StreamIDs : HandlerReturn(id)
       \/ \E id \in StreamIDs : WriteResponseEnd(id)
       \/ \E id \in StreamIDs : SendRSTStream(id)
    /\ UNCHANGED <<hlVars, pipelineVars, routeVars, reloadVars, ipVars, loadVars,
                 moreVars>>

\* the frames and handler steps of a connection with two streams, the
\* handler of the first writing a response body
FlowStreams == {1, 3}
WriteStreams == {1}
Increments == {1, MaxWindowSize - initialWindowSize, MaxWindowSize}
WindowSettings == {0, MaxWindowSize}
WriteLengths == {2, initialMaxFrameSize + 1}

NextSend ==
    /\ \/ \E id \in FlowStreams : RecvHeaders(id, FALSE, TRUE)
       \/ \E id \in WriteStreams \cup {0}, inc \in Increments :
              RecvWindowUpdate(id, inc)
       \/ \E val \in WindowSettings : RecvSettings(val)
       \/ \E id \in WriteStreams, n \in WriteLengths : HandlerWrite(id, n)
       \/ \E id \in WriteStreams : WriteData(id)
       \/ \E id \in WriteStreams : HandlerReturn(id)
       \/ \E id \in WriteStreams : WriteResponseEnd(id)
    /\ UNCHANGED <<hlVars, pipelineVars, routeVars, reloadVars, ipVars, loadVars,
                 moreVars>>

\* the frames and handler steps of a connection with two streams whose
\* handlers read the request bodies
DataLengths == {3}
PadLengths == {4}
ReadLengths == {1, 3}

NextIn ==
    /\ \/ \E id \in FlowStreams : RecvHeaders(id, FALSE, TRUE)
       \/ \E id \in FlowStreams, n \in DataLengths, endStream \in BOOLEAN :
              processData(id, n, 0, endStream)
       \/ \E id \in FlowStreams, n \in DataLengths, padLength \in PadLengths :
              processData(id, n, Padded(padLength), FALSE)
       \/ \E id \in FlowStreams, m \in ReadLengths : HandlerRead(id, m)
       \/ \E id \in FlowStreams : HandlerReturn(id)
       \/ \E id \in FlowStreams : WriteResponseEnd(id)
       \/ \E id \in FlowStreams : SendRSTStream(id)
    /\ UNCHANGED <<hlVars, pipelineVars, routeVars, reloadVars, ipVars, loadVars,
                 moreVars>>

\* the frames and handler steps of a connection with one stream whose
\* handler blocks and whose client cancels
CancelStreams == {1}
WaitsFor == {"read", "notify"}

NextCancel ==
    /\ \/ \E id \in CancelStreams : RecvHeaders(id, FALSE, TRUE)
       \/ RecvSettings(0)
       \/ \E id \in CancelStreams : processData(id, 3, 0, FALSE)
       \/ \E id \in CancelStreams : RecvWindowUpdate(id, MaxWindowSize)
       \/ \E id \in CancelStreams : RecvRSTStream(id)
       \/ ConnClose
       \/ \E id \in CancelStreams, what \in WaitsFor : HandlerWait(id, what)
       \/ \E id \in CancelStreams : HandlerWrite(id, 2)
       \/ \E id \in CancelStreams : HandlerWriteHeaders(id)
       \/ \E id \in CancelStreams : WriteHeadersDone(id)
       \/ \E id \in CancelStreams : WriteData(id)
       \/ \E id \in CancelStreams : Unblock(id)
    /\ UNCHANGED <<hlVars, pipelineVars, routeVars, reloadVars, ipVars, loadVars,
                 moreVars>>

\* the frames and handler steps of a connection with two streams whose
\* handlers return while the client may still send DATA
NextClose ==
    /\ \/ \E id \in FlowStreams : RecvHeaders(id, FALSE, TRUE)
       \/ \E id \in FlowStreams, n \in DataLengths, endStream \in BOOLEAN :
              processData(id, n, 0, endStream)
       \/ \E id \in FlowStreams : HandlerReturn(id)
       \/ \E id \in FlowStreams : WriteResponseEnd(id)
       \/ \E id \in FlowStreams : SendRSTStream(id)
    /\ UNCHANGED <<hlVars, pipelineVars, routeVars, reloadVars, ipVars, loadVars,
                 moreVars>>

\* the header blocks a client sends: GET / over https with one field put
\* in, put in place of another, or left out
RegularName == <<102, 111, 111>>
RegularValue == <<118>>

TestFields ==
    {Field(RegularName, RegularValue), Field(RegularName, <<9>>),
     Field(<<>>, RegularValue), Field(<<85>>, RegularValue),
     Field(<<97, 58, 98>>, RegularValue), Field(<<97, 0>>, RegularValue),
     Field(RegularName, <<104, 10>>), Field(RegularName, <<104, 13>>),
     Field(RegularName, <<104, 127>>),
     Field(PseudoMethod, <<>>), Field(PseudoMethod, <<80, 79, 83, 84>>),
     Field(PseudoPath, <<>>), Field(PseudoScheme, <<>>),
     Field(PseudoScheme, <<98, 111, 103, 117, 115>>), Field(PseudoAuthority, <<104>>),
     Field(<<58, 117>>, <<>>)}

RemoveAt(fields, x) ==
    SubSeq(fields, 1, x - 1) \o SubSeq(fields, x + 1, Len(fields))

HeaderBlocks ==
    {GoodRequest}
    \cup {GoodRequest \o <<f>> : f \in TestFields}
    \cup {<<f>> \o GoodRequest : f \in TestFields}
    \cup {[GoodRequest EXCEPT ![x] = f] :
             x \in 1..Len(GoodRequest),
             f \in {g \in TestFields : g.name \in PseudoNames}}
    \cup {RemoveAt(GoodRequest, x) : x \in 1..Len(GoodRequest)}

\* requests without a body, as the tests send them
NextReject ==
    /\ \/ \E id \in FlowStreams, fields \in HeaderBlocks :
              processHeaders(id, TRUE, TRUE, NoLength, fields)
       \/ \E id \in FlowStreams : HandlerReturn(id)
       \/ \E id \in FlowStreams : WriteResponseEnd(id)
    /\ UNCHANGED <<hlVars, pipelineVars, routeVars, reloadVars, ipVars, loadVars,
                 moreVars>>

\* the frames and handler steps of a connection with one stream whose
\* request may declare a content-length
BodyStreams == {1}
BodyLengths == {2, 3}
ContentLengths == {NoLength, 3}

NextBody ==
    /\ \/ \E id \in BodyStreams, endStream \in BOOLEAN, decl \in ContentLengths :
              processHeaders(id, endStream, TRUE, decl, GoodRequest)
       \/ \E id \in BodyStreams, n \in BodyLengths, endStream \in BOOLEAN :
              processData(id, n, 0, endStream)
       \/ \E id \in BodyStreams, m \in 1..3 : HandlerRead(id, m)
       \/ \E id \in BodyStreams : HandlerReadEnd(id)
    /\ UNCHANGED <<hlVars, pipelineVars, routeVars, reloadVars, ipVars, loadVars,
                 moreVars>>

Spec == Init /\ [][Next]_vars

SpecGslb == InitGslb /\ [][NextGslb]_vars

SpecHL == InitList /\ [][NextHL]_vars

SpecRoute == InitRouteProduct /\ [][NextRoute]_vars

SpecCluster == InitRouteCluster /\ [][NextRoute]_vars

SpecReload == InitReloading /\ [][NextReload]_vars

SpecIP == InitIPItems /\ [][NextIP]_vars

SpecH2 == InitConn /\ [][NextH2]_vars

SpecCond == InitParsed /\ [][NextCond]_vars

InitLoaded ==
    /\ InitHL /\ InitIdle /\ InitReq
    /\ IdleRoute /\ InitReload /\ InitIP /\ InitH2
    /\ IdleCond /\ InitClusterConf /\ IdleMore

NextClusterConf ==
    /\ CheckCluster
    /\ UNCHANGED <<hlVars, pipelineVars, routeVars, reloadVars, ipVars, h2Vars,
                 moreVars>>

SpecClusterConf == InitLoaded /\ [][NextClusterConf]_vars

\* ---- calls of functions that keep no state: everything else is idle
IdleButMore ==
    /\ InitHL /\ InitIdle /\ InitReq
    /\ IdleRoute /\ InitReload /\ InitIP /\ InitH2 /\ IdleLoad

IdleButFn == IdleButMore /\ InitTransports

UnchangedButMore ==
    UNCHANGED <<hlVars, pipelineVars, routeVars, reloadVars, ipVars, h2Vars,
                loadVars>>

UnchangedButFn == UnchangedButMore /\ UNCHANGED tsVars

\* ---- the goroutines of the transport map
InitTs == IdleButMore /\ IdleFn /\ InitTransports

NextTs ==
    /\ \/ \E g \in Getters : getTransport(g)
       \/ \E s \in Setters : setTransports(s)
    /\ UnchangedButMore
    /\ UNCHANGED fnVars

SpecTs == InitTs /\ [][NextTs]_vars

\* the status codes a health check gets and those its configuration expects
StatusCodesGot ==
    {0 - 150, 0 - 1, 0, 50, 99, 100, 199, 200, 250, 301, 404, 500, 599, 600,
     650, 3100, 6400, 6500}
StatusCodesExpected == (0 - 1 .. 33) \cup {99, 100, 200, 301, 404, 599, 600}

InitMatch ==
    /\ IdleButFn
    /\ fnArgs \in [get : StatusCodesGot, expect : StatusCodesExpected]
    /\ fnRet = <<>>

CallMatchStatusCode ==
    /\ fnRet = <<>>
    /\ fnRet' = <<MatchStatusCode(fnArgs.get, fnArgs.expect)>>
    /\ UNCHANGED fnArgs

NextMatch == CallMatchStatusCode /\ UnchangedButFn

SpecMatch == InitMatch /\ [][NextMatch]_vars

\* the settings of a SETTINGS frame: the six IDs defined, 0 and some IDs not
\* defined, with values at and next to each bound and at both ends of uint32
SettingIDs == (0 .. MaxSettingID) \cup {255, 65535}
SettingLows ==
    {0, 1, 2, initialMaxFrameSize - 1, initialMaxFrameSize,
     initialMaxFrameSize + 1, initialWindowSize, MaxFrameSizeLimit - 1,
     MaxFrameSizeLimit, MaxFrameSizeLimit + 1, MaxWindowSize - 1,
     MaxWindowSize}
SettingVals == {Uint32(hi, lo) : hi \in {0, 1}, lo \in SettingLows}

InitSetting ==
    /\ IdleButFn
    /\ fnArgs \in [ID : SettingIDs, Val : SettingVals]
    /\ fnRet = <<>>

CallValid ==
    /\ fnRet = <<>>
    /\ fnRet' = <<Valid(fnArgs)>>
    /\ UNCHANGED fnArgs

NextSetting == CallValid /\ UnchangedButFn

SpecSetting == InitSetting /\ [][NextSetting]_vars

\* header field names as the runes a range over the string gives (the last is
\* the replacement character of a byte that is not UTF-8) and header field
\* values as bytes: every single one up to MaxChar, and the strings of up to
\* MaxFieldLen of a few
NameRunes == {0, 32, 34, 45, 58, 65, 90, 97, 122, 127, 233, 65533}
ValueBytes == {0, 9, 10, 13, 31, 32, 97, 127, 128, 255}
StringsOf(chars, n) == UNION {[1 .. k -> chars] : k \in 0 .. n}
FieldNames == StringsOf(NameRunes, MaxFieldLen) \cup {<<c>> : c \in 0 .. MaxChar}
FieldValues == StringsOf(ValueBytes, MaxFieldLen) \cup {<<c>> : c \in 0 .. MaxChar}

InitField ==
    /\ IdleButFn
    /\ fnArgs \in [fn : {"validHeaderFieldName"}, v : FieldNames]
                  \cup [fn : {"validHeaderFieldValue"}, v : FieldValues]
    /\ fnRet = <<>>

CallValidHeaderFieldName ==
    /\ fnRet = <<>> /\ fnArgs.fn = "validHeaderFieldName"
    /\ fnRet' = <<validHeaderFieldName(fnArgs.v)>>
    /\ UNCHANGED fnArgs

CallValidHeaderFieldValue ==
    /\ fnRet = <<>> /\ fnArgs.fn = "validHeaderFieldValue"
    /\ fnRet' = <<validHeaderFieldValue(fnArgs.v)>>
    /\ UNCHANGED fnArgs

NextField ==
    /\ \/ CallValidHeaderFieldName
       \/ CallValidHeaderFieldValue
    /\ UnchangedButFn

SpecField == InitField /\ [][NextField]_vars

\* the inbound requests: any protocol version, Close set or not, and a header
\* map in which each of a few keys is absent or has one of a few value lists
InboundKeys == <<"Connection", "Keep-Alive", "Upgrade", "Host">>
InboundValues == {<<"">>, <<"a">>, <<"", "a">>, <<"a", "b">>}
RECURSIVE HeadersOver(_)
HeadersOver(n) ==
    IF n = 0 THEN {NoHeader}
    ELSE LET rest == HeadersOver(n - 1)
         IN  rest \cup {[k \in DOMAIN h \cup {InboundKeys[n]} |->
                            IF k = InboundKeys[n] THEN v ELSE h[k]] :
                           h \in rest, v \in InboundValues}
InboundHeaders == HeadersOver(Len(InboundKeys))

InitOutReq ==
    /\ IdleButFn
    /\ fnArgs \in [heap : {<<h>> : h \in InboundHeaders},
                    req : [Proto : {"HTTP/1.0", "HTTP/1.1", "HTTP/2.0"},
                           Close : BOOLEAN, Header : {1}]]
    /\ fnRet = <<>>

\* ServeHTTP: prepare the out request
CallBuildOutReq ==
    /\ fnRet = <<>>
    /\ LET st == hopByHopHeaderRemove(fnArgs.heap, httpProtoSet(fnArgs.req),
                                      fnArgs.req)
       IN  fnRet' = <<[heap |-> st.heap, outreq |-> st.outreq,
                       req |-> fnArgs.req]>>
    /\ UNCHANGED fnArgs

NextOutReq == CallBuildOutReq /\ UnchangedButFn

SpecOutReq == InitOutReq /\ [][NextOutReq]_vars

SpecSend == InitConn /\ [][NextSend]_vars

SpecIn == InitConn /\ [][NextIn]_vars

SpecBody == InitConn /\ [][NextBody]_vars

SpecReject == InitConn /\ [][NextReject]_vars

\* the serve loop writes every frame that is due: the end of a response
\* whose handler has returned, and the RST_STREAM that follows it
WriterStep(id) ==
    /\ WriteResponseEnd(id) \/ SendRSTStream(id)
    /\ UNCHANGED <<hlVars, pipelineVars, routeVars, reloadVars, ipVars, loadVars,
                 moreVars>>

SpecClose ==
    /\ InitConn
    /\ [][NextClose]_vars
    /\ \A id \in FlowStreams : WF_vars(WriterStep(id))

\* a blocked handler waits on the cancellation of its stream and on the end
\* of the connection, so it is scheduled once either has happened
UnblockStep(id) ==
    /\ Unblock(id)
    /\ UNCHANGED <<hlVars, pipelineVars, routeVars, reloadVars, ipVars, loadVars,
                 moreVars>>

SpecCancel ==
    /\ InitConn
    /\ [][NextCancel]_vars
    /\ \A id \in CancelStreams : WF_vars(UnblockStep(id))

\* =================================================================
\* Properties
\* =================================================================

Min(a, b) == IF a < b THEN a ELSE b

Ended == pc \in {"quit", "finished"}

C2_LoopBounded ==
    /\ i <= LoopLimit
    /\ balanceCalls <= LoopLimit
    /\ attempts <= LoopLimit
    /\ pc \in {"balance", "forward", "roundtrip"} => i < LoopLimit
    /\ pc \in {"invoke", "balance", "forward", "roundtrip"} => ENABLED Next

\* Balance has returned ErrBkCrossRetryBalance on every one of 20 calls
C2_Witness ==
    /\ pc = "invoke_ret"
    /\ balanceCalls = LoopLimit
    /\ attempts = 0
    /\ err = "ErrBkCrossRetryBalance"

\* ---- C3
\* the retry condition as the claim words it
C3_MayRetry(e) ==
    \/ e = "ConnectError"
    \/ /\ e \in {"WriteRequestError", "ReadRespHeaderError",
                 "RespHeaderTimeoutError", "TransportBrokenError"}
       /\ retryLevel = RetryGet
       /\ method = "GET"
       /\ body \in {"nil", "EofReader", "spdyEof"}

\* C3: after a failed attempt a further attempt is made only if the error is
\* a connect error, or a write-request / read-response-header /
\* response-header-timeout / transport-broken error with RetryLevel RetryGet,
\* method GET and no request body; after any other failure the loop stops at
\* once and the error is what clusterInvoke returns.
C3_RetryOnlyIfAllowed ==
    [][ /\ (attempts' = attempts + 1 /\ attempts > 0) => C3_MayRetry(lastErr)
        /\ (attempts' = attempts + 1 /\ err' # Nil /\ ~C3_MayRetry(err'))
              => (pc' = "invoke_ret" /\ err' = lastErr')
        /\ (pc = "invoke_ret" /\ err \in RoundTripErrors /\ pc' # pc)
              => (pc' = "response_got" /\ res' = "resp500")
      ]_vars

\* a GET without body was retried after a failed read of the response header
\* and the second attempt succeeded
C3_Witness ==
    /\ attempts = 2
    /\ lastErr = "ReadRespHeaderError"
    /\ res = "respBackend"
    /\ method = "GET"

\* ---- C4
\* C4: backend connection counts are conserved per request: a backend is
\* never decremented more often than incremented, and when FinishReq has
\* returned every backend has been decremented as often as incremented.
C4_ConnCountConserved ==
    /\ \A b \in Backends : netConn[b] >= 0
    /\ pc = "finished" => \A b \in Backends : netConn[b] = 0

\* ---- C5
\* index of the first entry whose callback returns a verdict other than GOON
FirstNonGoOn(hs) ==
    IF \E n \in 1 .. Len(hs) : hs[n].ret # BFE_HANDLER_GOON
    THEN CHOOSE n \in 1 .. Len(hs) :
            /\ hs[n].ret # BFE_HANDLER_GOON
            /\ \A m \in 1 .. n - 1 : hs[m].ret = BFE_HANDLER_GOON
    ELSE 0

\* index of the first entry that is not a filter of kind k
FirstOtherKind(hs, k) ==
    IF \E n \in 1 .. Len(hs) : hs[n].kind # k
    THEN CHOOSE n \in 1 .. Len(hs) :
            /\ hs[n].kind # k
            /\ \A m \in 1 .. n - 1 : hs[m].kind = k
    ELSE 0

UpTo(n) == [j \in 1 .. n |-> j]

\* C5 as claimed: a Filter* call invokes the registered filters in order up
\* to and including the first that returns a verdict other than GOON, and
\* returns that verdict; GOON if there is none.
C5_DispatchInOrder ==
    hlCalled # <<>> =>
        LET n == FirstNonGoOn(handlers)
        IN  IF n = 0
            THEN hlInvoked = UpTo(Len(handlers)) /\ hlRetVal = BFE_HANDLER_GOON
            ELSE hlInvoked = UpTo(n) /\ hlRetVal = handlers[n].ret

\* C5 (amended): a Filter* call invokes the registered filters in order and
\* stops at the first that returns a verdict other than GOON, returning that
\* verdict, or at the first entry that is not of the filter type of the call,
\* returning GOON; no later filter is invoked; GOON if it stops nowhere.
C5_DispatchStopsAtOtherType ==
    hlCalled # <<>> =>
        LET n == FirstNonGoOn(handlers)
            m == FirstOtherKind(handlers, hlCalled[1])
        IN  IF n # 0 /\ (m = 0 \/ n < m)
            THEN hlInvoked = UpTo(n) /\ hlRetVal = handlers[n].ret
            ELSE IF m # 0
                 THEN hlInvoked = UpTo(m - 1) /\ hlRetVal = BFE_HANDLER_GOON
                 ELSE /\ hlInvoked = UpTo(Len(handlers))
                      /\ hlRetVal = BFE_HANDLER_GOON

\* two filters of the called type, the first one ends the walk
C5_Witness ==
    /\ hlCalled # <<>>
    /\ Len(handlers) = 2
    /\ \A n \in 1 .. 2 : handlers[n].kind = hlCalled[1]
    /\ hlInvoked = <<1>>
    /\ hlRetVal = BFE_HANDLER_REDIRECT

\* ---- C6
\* the events of ServeHTTP up to and including the dispatch of a request phase
EventsUpTo(p) ==
    CASE p = "BeforeLocation" -> {"BeforeLocation"}
      [] p = "FoundProduct"   -> {"BeforeLocation", "findProduct", "FoundProduct"}
      [] p = "AfterLocation"  -> {"BeforeLocation", "findProduct", "FoundProduct",
                                  "findCluster", "AfterLocation"}

\* C6: a Close verdict of the BeforeLocation, AfterProduct or AfterLocation
\* callbacks makes ServeHTTP return closeDirectly at once: nothing is written
\* to the client, no later phase is dispatched, no backend is selected or
\* contacted.
C6_CloseDirectly ==
    \A p \in RequestPhases :
        Returned(p, BFE_HANDLER_CLOSE) =>
            /\ Ended
            /\ ~panicked
            /\ action = "closeDirectly"
            /\ written = "none"
            /\ done \ {"RequestFinish"} = EventsUpTo(p)
            /\ balanceCalls = 0
            /\ forwardCalls = 0
            /\ attempts = 0
            /\ transBackend = Nil

C6_Witness ==
    /\ Returned("AfterLocation", BFE_HANDLER_CLOSE)
    /\ pc = "quit"

\* ---- C7
\* C7 as claimed: after a Response verdict of a request phase the backend is
\* skipped and the callback's response is passed to the OnResponse callbacks
\* and written to the client.
C7_ResponseWritten ==
    \A p \in RequestPhases :
        (Returned(p, BFE_HANDLER_RESPONSE) /\ httpResponse = CbRes(p) /\ Ended) =>
            /\ balanceCalls = 0
            /\ attempts = 0
            /\ onRespArg = CbRes(p)
            /\ written = CbRes(p)

\* C7 (amended): after a Response verdict of a request phase the backend is
\* skipped and the response the callbacks returned is the one passed to the
\* OnResponse callbacks; it is written to the client unless it is nil or the
\* OnResponse callbacks return Finish (nothing is written) or Redirect (the
\* redirect is written).
C7_ResponseSkipsBackend ==
    \A p \in RequestPhases :
        Returned(p, BFE_HANDLER_RESPONSE) =>
            /\ pc \in {"response_got", "redirect", "send_response", "quit",
                       "finished"}
            /\ balanceCalls = 0
            /\ forwardCalls = 0
            /\ attempts = 0
            /\ "buildOutReq" \notin done
            /\ httpResponse \in {Nil, CbRes(p)}
            /\ res = httpResponse
            /\ pc # "response_got" => onRespArg = httpResponse
            /\ Ended =>
                  written =
                     IF Returned("ReadBackend", BFE_HANDLER_FINISH) THEN "none"
                     ELSE IF Returned("ReadBackend", BFE_HANDLER_REDIRECT)
                          THEN "redirect"
                          ELSE IF httpResponse = Nil THEN "none"
                               ELSE httpResponse

C7_Witness ==
    /\ Returned("FoundProduct", BFE_HANDLER_RESPONSE)
    /\ onRespArg = "cbFoundProduct"
    /\ written = "cbFoundProduct"
    /\ pc = "quit"

\* ---- C8
FinishSeen ==
    \/ forwardFinish
    \/ \E p \in Phases : Returned(p, BFE_HANDLER_FINISH)

\* C8: a Finish verdict in any phase (BeforeLocation, AfterProduct,
\* AfterLocation, BeforeForward, OnResponse) ends the pipeline: ServeHTTP
\* returns with action closeAfterReply.
C8_FinishEndsPipeline ==
    FinishSeen =>
        /\ pc \in {"invoke_ret", "quit", "finished"}
        /\ action = "closeAfterReply"
        /\ ~panicked

\* ---- C9
Rank(e) ==
    CASE e = "none"           -> 0
      [] e = "BeforeLocation" -> 1
      [] e = "findProduct"    -> 2
      [] e = "FoundProduct"   -> 3
      [] e = "findCluster"    -> 4
      [] e = "AfterLocation"  -> 5
      [] e = "buildOutReq"    -> 6
      [] e = "Balance"        -> 7
      [] e = "Forward"        -> 8
      [] e = "RoundTrip"      -> 9
      [] e = "ReadBackend"    -> 10
      [] e = "write"          -> 11
      [] e = "RequestFinish"  -> 12

\* event b may come next after event a
InOrder(a, b) ==
    CASE b = "Balance"   -> a \in {"buildOutReq", "Balance", "RoundTrip"}
      [] b = "Forward"   -> a = "Balance"
      [] b = "RoundTrip" -> a = "Forward"
      [] OTHER           -> Rank(a) < Rank(b)

\* C9: the events of a request occur in the order BeforeLocation dispatch,
\* product lookup, AfterProduct dispatch, cluster lookup, AfterLocation
\* dispatch, outbound-request construction, then per attempt Balance,
\* BeforeForward dispatch, RoundTrip (one BeforeForward dispatch per attempt,
\* before its RoundTrip), then OnResponse dispatch, then the write to the
\* client.
C9_PipelineOrder ==
    /\ [](forwardCalls \in {attempts, attempts + 1})
    /\ [](pc = "roundtrip" <=> forwardCalls = attempts + 1 /\ ~forwardFinish)
    /\ [][ (ev' # ev \/ balanceCalls' # balanceCalls) => InOrder(ev, ev') ]_vars

\* a request answered by the backend on the second attempt
C9_Witness ==
    /\ attempts = 2
    /\ written = "respBackend"
    /\ done = {"BeforeLocation", "findProduct", "FoundProduct", "findCluster",
               "AfterLocation", "buildOutReq", "Balance", "Forward",
               "RoundTrip", "ReadBackend", "write"}
    /\ pc = "quit"

\* ---- C10
\* C10: when the product lookup or the cluster lookup fails, ServeHTTP makes
\* a 500 response, its action is closeAfterReply and no backend is selected
\* or contacted; after a failed product lookup there is no cluster lookup and
\* no AfterProduct or AfterLocation dispatch.
C10_RoutingFailure ==
    routeErr # Nil =>
        /\ res = "resp500"
        /\ httpResponse = "resp500"
        /\ action = "closeAfterReply"
        /\ ~panicked
        /\ pc \in {"response_got", "redirect", "send_response", "quit",
                   "finished"}
        /\ balanceCalls = 0
        /\ forwardCalls = 0
        /\ attempts = 0
        /\ transBackend = Nil
        /\ onRespArg \in {"none", "resp500"}
        /\ routeErr = "NoProduct" =>
              done \cap {"FoundProduct", "findCluster", "AfterLocation",
                         "buildOutReq"} = {}

C10_Witness ==
    /\ routeErr = "NoProduct"
    /\ written = "resp500"
    /\ pc = "quit"

\* ---- C11
\* C11: whenever ServeHTTP has ended a request with the synthesized 500
\* response (routing failure, missing cluster or balancer, Balance failure,
\* failed backend attempt of any error type), request.ErrCode is non-nil and
\* request.ErrMsg is non-empty.
C11_ErrorRecorded ==
    (Ended /\ ~panicked /\ res = "resp500") =>
        /\ errCode # Nil
        /\ errMsg # ""

\* ---- C12
\* C12: every RoundTrip that returns a connect, write-request,
\* read-response-header, response-header-timeout or transport-broken error
\* is followed by exactly one OnFail call on the backend of the attempt, and
\* every successful RoundTrip by exactly one OnSuccess call and no OnFail call.
C12_FailureCounted ==
    ev = "RoundTrip" =>
        IF err = Nil
        THEN /\ onSuccessCalls[transBackend] = 1
             /\ \A b \in Backends : onFailCalls[b] = 0
        ELSE err \in {"ConnectError"} \cup RetryableByLevel =>
                /\ onFailCalls[transBackend] = 1
                /\ \A b \in Backends \ {transBackend} : onFailCalls[b] = 0
                /\ \A b \in Backends : onSuccessCalls[b] = 0

\* ---- C13
\* C13: LookupHostTagAndProduct resolves the product by strict priority: the
\* match of the host name in the trie if there is one (the VIP table and
\* the default are then not consulted); else the VIP table entry if the
\* session has a VIP and it is mapped; else the default product if it is
\* non-empty; else ErrNoProduct with Product and HostTag empty and Route.Error
\* set.  On success Route.Error is nil.
C13_ProductPriority ==
    rtPc = "product" =>
        LET key == Split(reverseFqdnHost(hostnameStrip(ToLower(rtReq.host))), ".")
            hostHit == rtTable.hostTrie # <<>> /\ key \in DOMAIN rtTable.hostTrie[1]
            vipHit == rtReq.vip # <<>> /\ rtReq.vip[1].addr \in DOMAIN rtTable.vipTable
        IN  IF hostHit
            THEN /\ rtRoute.Product = rtTable.hostTrie[1][key].product
                 /\ rtRoute.HostTag = rtTable.hostTrie[1][key].tag
                 /\ rtRoute.Error = "nil" /\ rtErr = "nil"
                 /\ rtConsulted = {"hostTrie"}
            ELSE IF vipHit
                 THEN /\ rtRoute.Product = rtTable.vipTable[rtReq.vip[1].addr]
                      /\ rtRoute.Error = "nil" /\ rtErr = "nil"
                      /\ "defaultProduct" \notin rtConsulted
                 ELSE IF rtTable.defaultProduct # ""
                      THEN /\ rtRoute.Product = rtTable.defaultProduct
                           /\ rtRoute.Error = "nil" /\ rtErr = "nil"
                      ELSE /\ rtErr = "ErrNoProduct"
                           /\ rtRoute.Error = "ErrNoProduct"
                           /\ rtRoute.Product = ""
                           /\ rtRoute.HostTag = ""

\* the host is not in a trie that has entries, the VIP is mapped, a default
\* is configured: the VIP's product is taken
C13_Witness ==
    /\ rtPc = "product"
    /\ rtTable.hostTrie # <<>>
    /\ DOMAIN rtTable.hostTrie[1] # {}
    /\ rtTable.defaultProduct = "pd"
    /\ rtRoute.Product = "pv"
    /\ rtConsulted = {"hostTrie", "vipTable"}

\* ---- C14
\* C14: LookupCluster applies the rules of the product in order and the first
\* matching rule wins: ClusterName is the cluster of the lowest-index rule
\* whose condition matches the request, and no rule after it is evaluated.
C14_FirstMatchWins ==
    (rtPc = "cluster" /\ rtRoute.Product \in DOMAIN rtTable.productRouteTable) =>
        LET rules == rtTable.productRouteTable[rtRoute.Product]
            hits == {k \in 1 .. Len(rules) : rules[k].cond \in rtReq.conds}
        IN  IF hits # {}
            THEN LET first == CHOOSE k \in hits : \A j \in hits : k <= j
                 IN  /\ rtRoute.ClusterName = rules[first].cluster
                     /\ rtEvaluated = UpTo(first)
            ELSE /\ rtRoute.ClusterName = ""
                 /\ rtEvaluated = UpTo(Len(rules))

\* two rules match, for different clusters: the first one's cluster is taken
C14_Witness ==
    /\ rtPc = "cluster"
    /\ rtRoute.Product = "p1"
    /\ "p1" \in DOMAIN rtTable.productRouteTable
    /\ rtTable.productRouteTable["p1"] =
          <<[cond |-> "c2", cluster |-> "cb"], [cond |-> "c1", cluster |-> "ca"]>>
    /\ rtReq.conds = {"c1", "c2"}
    /\ rtRoute.ClusterName = "cb"
    /\ rtErr = "nil"

Covers(items, ip) ==
    \E n \in 1..Len(items) : items[n].startIP <= ip /\ ip <= items[n].endIP

\* the least addresses of the groups of overlapping ranges of a list
GroupStarts(items) ==
    {ip \in Addrs :
        /\ \E n \in 1..Len(items) : items[n].startIP = ip
        /\ ~ \E n \in 1..Len(items) : items[n].startIP < ip /\ ip <= items[n].endIP}

\* C16: a Sort that directly follows a Sort leaves the array exactly as the
\* first one left it.
C16_SortIdempotent == ipTwice => ipItems = ipBefore

\* C17: after Sort the array is ordered by start address strictly descending,
\* no two of its ranges overlap or are adjacent, and no emptied slot remains.
C17_NormalForm ==
    ipLast = "sort" =>
        /\ \A n \in 1..(Len(ipItems) - 1) :
              /\ ipItems[n].startIP > ipItems[n + 1].startIP
              /\ ipItems[n + 1].endIP + 1 < ipItems[n].startIP
        /\ \A n \in 1..Len(ipItems) :
              ipItems[n] = Tombstone => Covers(ipInserted, IPv6zero)

\* C18: after Sort an address lies inside a range of the array exactly when
\* it lay inside an inserted range, and the array holds one range for each
\* group of overlapping inserted ranges.
C18_MembershipPreserved ==
    ipLast = "sort" =>
        /\ \A ip \in Addrs : Covers(ipItems, ip) = Covers(ipInserted, ip)
        /\ Len(ipItems) = Cardinality(GroupStarts(ipInserted))

\* ---- HTTP/2 streams

\* C19: the stream IDs of the accepted peer-initiated streams are odd and
\* strictly increasing, and a HEADERS frame that would open a stream with an
\* even ID, or an ID not above the highest seen, closes the connection with
\* PROTOCOL_ERROR.
C19_StreamIDsIncrease ==
    /\ \A n \in 1..Len(h2Accepted) :
          /\ h2Accepted[n] % 2 = 1
          /\ n > 1 => h2Accepted[n - 1] < h2Accepted[n]
    /\ ( /\ h2Last.op = "HEADERS"
         /\ ~h2Last.known
         /\ (h2Last.id % 2 = 0 \/ h2Last.id <= h2Last.maxStreamID) )
       => h2GoAway = "PROTOCOL_ERROR"

\* two streams were accepted and then HEADERS came for an odd ID that is not
\* above the highest seen and not in the streams map
C19_Witness ==
    /\ Len(h2Accepted) >= 2
    /\ h2Last.op = "HEADERS"
    /\ ~h2Last.known
    /\ h2Last.id % 2 = 1
    /\ h2Last.id <= h2Last.maxStreamID
    /\ h2GoAway = "PROTOCOL_ERROR"

\* the steps of the lifecycle of a peer-initiated stream, for frames that do
\* not interrupt a header block
LifecycleSteps ==
    /\ \A id \in DOMAIN h2Streams :
          id <= h2MaxStreamID /\ h2Streams[id] \notin {"Idle", "Closed"}
    /\ (h2Last.op = "HEADERS" /\ h2Last.block = 0 /\ h2Last.prev = "Idle"
            /\ h2Last.id % 2 = 1
            /\ ~h2Last.endStream)
       => h2Last.id \in DOMAIN h2Streams /\ h2Streams[h2Last.id] = "Open"
    /\ (h2Last.op \in {"HEADERS", "DATA"} /\ h2Last.block = 0
            /\ h2Last.prev = "Open"
            /\ h2Last.endStream)
       => /\ h2Last.id \in DOMAIN h2Streams
          /\ h2Streams[h2Last.id] = "HalfClosedRemote"
          /\ h2BodyEOF[h2Last.id]
    /\ (h2Last.op = "response" /\ h2Last.prev = "HalfClosedRemote")
       => /\ h2Handler[h2Last.id] = "done"
          /\ h2Last.id \notin DOMAIN h2Streams
          /\ State(h2Last.id) = "Closed"

IsPrefix(q, r) == Len(q) <= Len(r) /\ \A n \in 1..Len(q) : q[n] = r[n]

StateRank(st) ==
    CASE st = "Idle" -> 0
      [] st = "Open" -> 1
      [] st \in {"HalfClosedRemote", "HalfClosedLocal"} -> 2
      [] OTHER -> 3

\* C20 as stated: the steps of the lifecycle hold, and a stream passes through
\* Idle, Open, HalfClosedRemote, Closed in this order and no other.
C20_LifecycleExact ==
    /\ LifecycleSteps
    /\ \A id \in StreamIDs :
          IsPrefix(h2Hist[id], <<"Idle", "Open", "HalfClosedRemote", "Closed">>)

\* C20: the steps of the lifecycle hold, HEADERS with END_STREAM takes an
\* Idle stream to HalfClosedRemote at once, and the state of a stream only
\* moves forward in the order Idle, Open, HalfClosedRemote or
\* HalfClosedLocal, Closed.
C20_LifecycleForward ==
    /\ LifecycleSteps
    /\ (h2Last.op = "HEADERS" /\ h2Last.block = 0 /\ h2Last.prev = "Idle"
            /\ h2Last.id % 2 = 1
            /\ h2Last.endStream)
       => /\ h2Last.id \in DOMAIN h2Streams
          /\ h2Streams[h2Last.id] = "HalfClosedRemote"
          /\ h2BodyEOF[h2Last.id]
    /\ \A id \in StreamIDs :
          \A n \in 1..(Len(h2Hist[id]) - 1) :
              StateRank(h2Hist[id][n]) < StateRank(h2Hist[id][n + 1])

\* a stream went through the whole lifecycle, ending with the response
C20_Witness ==
    /\ h2Last.op = "response"
    /\ h2Hist[h2Last.id] = <<"Idle", "Open", "HalfClosedRemote", "Closed">>

\* the frame types of the model
FrameOps == {"HEADERS", "CONTINUATION", "PING", "PUSH_PROMISE", "DATA", "RST_STREAM"}

\* C21: while a header block is in progress every frame but a CONTINUATION on
\* the same stream ends the connection with GOAWAY(PROTOCOL_ERROR), and so do
\* a CONTINUATION with no header block in progress, HEADERS or CONTINUATION
\* on stream 0 and a PUSH_PROMISE; a CONTINUATION on the stream of the block
\* is accepted.
C21_HeaderBlockExclusive ==
    /\ ( /\ h2Last.op \in FrameOps
         /\ h2Last.block # 0
         /\ ~(h2Last.op = "CONTINUATION" /\ h2Last.id = h2Last.block) )
       => h2GoAway = "PROTOCOL_ERROR"
    /\ (h2Last.op = "CONTINUATION" /\ h2Last.block = 0)
       => h2GoAway = "PROTOCOL_ERROR"
    /\ (h2Last.op \in {"HEADERS", "CONTINUATION"} /\ h2Last.id = 0)
       => h2GoAway = "PROTOCOL_ERROR"
    /\ h2Last.op = "PUSH_PROMISE" => h2GoAway = "PROTOCOL_ERROR"
    /\ ( /\ h2Last.op = "CONTINUATION"
         /\ h2Last.block # 0
         /\ h2Last.id = h2Last.block )
       => h2GoAway = ""

\* a PING arrived while the header block of an accepted stream was in progress
C21_Witness ==
    /\ h2Last.op = "PING"
    /\ h2Last.block # 0
    /\ h2Last.block \in DOMAIN h2Streams
    /\ h2GoAway = "PROTOCOL_ERROR"

\* C22: a WINDOW_UPDATE that would raise a send window above 2^31-1 is a
\* flow-control error of the window it targets: on stream 0 the connection
\* is closed with GOAWAY(FLOW_CONTROL_ERROR) whose last-stream-id is the
\* highest stream processed (0 when none) and no stream is reset for it; on
\* a stream in the map RST_STREAM(FLOW_CONTROL_ERROR) is sent for it, that
\* stream alone leaves the map and the connection stays open.  No send
\* window is ever above 2^31-1.
C22_WindowOverflow ==
    /\ (/\ h2Last.op = "WINDOW_UPDATE"
        /\ h2Last.block = 0
        /\ h2Last.id = 0
        /\ h2Last.send.conn > 0
        /\ h2Last.n > MaxWindowSize - h2Last.send.conn)
       => /\ h2GoAway = "FLOW_CONTROL_ERROR"
          /\ h2LastStreamID = h2Last.maxStreamID
          /\ DOMAIN h2Streams = h2Last.streams
          /\ h2Send = h2Last.send
    /\ (/\ h2Last.op = "WINDOW_UPDATE"
        /\ h2Last.block = 0
        /\ h2Last.id \in h2Last.streams
        /\ h2Last.send.stream[h2Last.id] > 0
        /\ h2Last.n > MaxWindowSize - h2Last.send.stream[h2Last.id])
       => /\ h2Rst[h2Last.id] = "FLOW_CONTROL_ERROR"
          /\ DOMAIN h2Streams = h2Last.streams \ {h2Last.id}
          /\ h2GoAway = ""
          /\ h2Send = h2Last.send
    /\ h2Send.conn <= MaxWindowSize
    /\ \A id \in StreamIDs : h2Send.stream[id] <= MaxWindowSize

\* a connection window at 2^31-1 overflows with two streams open: GOAWAY
\* names the higher of them
C22_Witness ==
    /\ h2Last.op = "WINDOW_UPDATE"
    /\ h2Last.id = 0
    /\ h2Last.n = 1
    /\ h2Last.send.conn = MaxWindowSize
    /\ h2GoAway = "FLOW_CONTROL_ERROR"
    /\ h2LastStreamID = 3
    /\ h2Rst[1] = "FLOW_CONTROL_ERROR"

\* bytes received on the connection that no handler has read yet
RECURSIVE UnreadUpTo(_)
UnreadUpTo(id) == IF id = 0 THEN 0 ELSE h2In.unread[id] + UnreadUpTo(id - 1)

Unread == UnreadUpTo(MaxStreamID)

\* C23 as stated: connection inbound window + bytes received but not yet
\* read by handlers = initial window + the sum of the WINDOW_UPDATE
\* increments sent on stream 0.
C23_ConservationAsStated ==
    h2In.conn + Unread = initialWindowSize + h2In.wuConn

\* C23: inbound credit is conserved on the connection: the connection
\* inbound window + the flow-controlled bytes received on the connection =
\* the initial window + the sum of the WINDOW_UPDATE increments sent on
\* stream 0, and what is still unread is what the window is short of.  A
\* handler read of M bytes returns M to the connection window, and M to the
\* stream window only while the stream has not received END_STREAM; the
\* bytes a padded DATA frame spends on padding (pad length + 1) are returned
\* at once on both levels.
C23_Conservation ==
    /\ h2In.conn + h2In.recvConn = initialWindowSize + h2In.wuConn
    /\ h2In.conn + Unread = initialWindowSize
    /\ h2Last.op = "read"
       => /\ h2In.wuConn = h2Last.in.wuConn + h2Last.n
          /\ h2In.conn = h2Last.in.conn + h2Last.n
          /\ h2In.unread[h2Last.id] = h2Last.in.unread[h2Last.id] - h2Last.n
          /\ IF h2Last.prev = "Open"
             THEN /\ h2In.wu[h2Last.id] = h2Last.in.wu[h2Last.id] + h2Last.n
                  /\ h2In.stream[h2Last.id] =
                        h2Last.in.stream[h2Last.id] + h2Last.n
             ELSE /\ h2In.wu[h2Last.id] = h2Last.in.wu[h2Last.id]
                  /\ h2In.stream[h2Last.id] = h2Last.in.stream[h2Last.id]
    /\ (h2Last.op = "DATA" /\ h2Last.prev = "Open" /\ h2Last.pad > 0)
       => /\ h2In.wuConn = h2Last.in.wuConn + h2Last.pad
          /\ h2In.wu[h2Last.id] = h2Last.in.wu[h2Last.id] + h2Last.pad
          /\ h2In.conn = h2Last.in.conn - h2Last.n
          /\ h2In.stream[h2Last.id] = h2Last.in.stream[h2Last.id] - h2Last.n

\* a handler reads after END_STREAM, on a stream that took a padded frame
\* and was read from before
C23_Witness ==
    /\ h2Last.op = "read"
    /\ h2Last.prev = "HalfClosedRemote"
    /\ h2In.wu[h2Last.id] > Padded(4)
    /\ h2In.wuConn > h2In.wu[h2Last.id]
    /\ h2In.unread[h2Last.id] > 0

\* C24 as stated: at every point the DATA bytes sent on a stream are at
\* most the peer's INITIAL_WINDOW_SIZE plus the WINDOW_UPDATE increments
\* received for the stream (the credit is those increments less the bytes
\* sent), and likewise for the connection.
C24_WithinGrantAsStated ==
    /\ \A id \in DOMAIN h2Streams : h2Send.credit[id] >= 0 - h2Send.initial
    /\ h2Send.connCredit >= 0 - initialWindowSize

\* C24: the server never sends more DATA than the peer has granted: the
\* send window of a stream in the map is the peer's INITIAL_WINDOW_SIZE plus
\* the WINDOW_UPDATE increments received for it less the bytes sent on it
\* (below 0 only after the peer lowered INITIAL_WINDOW_SIZE), likewise the
\* connection window with the initial 65535; every DATA frame with payload
\* is at most MAX_FRAME_SIZE and at most both windows as they were when it
\* was sent, so none is sent while a window is 0 or less, and it carries
\* exactly what the handler still wants cut to those three; the frame that
\* ends the response is written whatever the windows are.
C24_WithinGrant ==
    /\ \A id \in DOMAIN h2Streams :
          h2Send.stream[id] = h2Send.initial + h2Send.credit[id]
    /\ h2Send.conn = initialWindowSize + h2Send.connCredit
    /\ h2Send.connSent >= 0 /\ h2Send.conn >= 0
    /\ h2Last.op = "data"
       => /\ h2Last.n >= 1
          /\ h2Last.n <= initialMaxFrameSize
          /\ h2Last.n <= h2Last.send.stream[h2Last.id]
          /\ h2Last.n <= h2Last.send.conn
          /\ h2Last.n <= h2Last.send.want[h2Last.id]
          /\ \/ h2Last.n = initialMaxFrameSize
             \/ h2Last.n = h2Last.send.stream[h2Last.id]
             \/ h2Last.n = h2Last.send.conn
             \/ h2Last.n = h2Last.send.want[h2Last.id]
          /\ h2Send.sent[h2Last.id] = h2Last.send.sent[h2Last.id] + h2Last.n
          /\ h2Send.stream[h2Last.id] = h2Last.send.stream[h2Last.id] - h2Last.n
          /\ h2Send.conn = h2Last.send.conn - h2Last.n
    /\ \A id \in StreamIDs :
          (h2Handler[id] = "write" /\ id \in DOMAIN h2Streams /\ h2GoAway = "")
          => h2Send.want[id] >= 1

\* with INITIAL_WINDOW_SIZE 0 a write of two bytes went out in two frames of
\* one byte, each after a WINDOW_UPDATE of 1, and the frame that ends the
\* response is written while the stream window is 0
C24_Witness ==
    /\ h2Last.op = "response"
    /\ h2Last.send.initial = 0
    /\ h2Last.send.stream[h2Last.id] = 0
    /\ h2Last.send.sent[h2Last.id] = 2
    /\ h2Last.send.credit[h2Last.id] = 0
    /\ h2Handler[h2Last.id] = "done"

C26_CancelUnblocks ==
    \A id \in CancelStreams :
       (/\ h2Handler[id] \in {"read", "write", "notify"}
        /\ (id \notin DOMAIN h2Streams \/ h2GoAway # ""))
       ~> h2Handler[id] \notin {"read", "write", "notify"}

\* a blocked handler whose stream the client reset was woken
C26_Witness ==
    /\ h2Last.op = "unblock"
    /\ h2Last.prev = "Closed"
    /\ h2Handler[h2Last.id] = "running"
    /\ h2Rst[h2Last.id] = ""
    /\ h2GoAway = ""

\* a field of the block with one of the defects of a name or a value
BadField(f) ==
    \/ f.name = <<>>
    \/ \E k \in 1..Len(f.name) :
          \/ 65 <= f.name[k] /\ f.name[k] <= 90
          \/ f.name[k] = 58 /\ k > 1
          \/ f.name[k] = 0
    \/ \E k \in 1..Len(f.value) : f.value[k] \in {13, 10, 127}

\* the pseudo-header fields of the block are out of place, duplicated,
\* unknown, or :method, :path or :scheme is missing, empty or invalid
BadPseudo(fields) ==
    \/ \E x \in 1..Len(fields), y \in 1..Len(fields) :
          /\ x < y
          /\ fields[y].name # <<>> /\ fields[y].name[1] = 58
          /\ \/ fields[x].name = <<>>
             \/ fields[x].name # <<>> /\ fields[x].name[1] # 58
             \/ fields[x].name = fields[y].name
    \/ \E x \in 1..Len(fields) :
          /\ fields[x].name # <<>> /\ fields[x].name[1] = 58
          /\ fields[x].name \notin
                {PseudoMethod, PseudoPath, PseudoScheme, PseudoAuthority}
    \/ \E name \in {PseudoMethod, PseudoPath, PseudoScheme} :
          \/ \A x \in 1..Len(fields) : fields[x].name # name
          \/ \E x \in 1..Len(fields) :
                fields[x].name = name /\ fields[x].value = <<>>
    \/ \E x \in 1..Len(fields) :
          /\ fields[x].name = PseudoScheme
          /\ fields[x].value \notin {SchemeHTTP, SchemeHTTPS}

HandlerCloseSafe ==
    /\ \A id \in DOMAIN h2Streams : h2Streams[id] \notin {"Closed", "Idle"}
    /\ (h2Last.op = "response" /\ h2Last.prev = "Open")
       => /\ h2Last.id \in DOMAIN h2Streams
          /\ h2Streams[h2Last.id] = "HalfClosedLocal"
          /\ h2Handler[h2Last.id] = "done"
    /\ h2Last.op = "reset"
       => /\ h2Last.prev = "HalfClosedLocal"
          /\ h2Handler[h2Last.id] = "done"
          /\ h2Rst[h2Last.id] = "NO_ERROR"
          /\ h2Last.id \notin DOMAIN h2Streams
    /\ (h2Last.op = "DATA" /\ h2Last.prev = "Closed" /\ h2Last.id # 0)
       => /\ h2Rst[h2Last.id] = "STREAM_CLOSED"
          /\ h2GoAway = ""
          /\ h2In.wuConn = h2Last.in.wuConn + h2Last.n + h2Last.pad
          /\ h2In.conn = h2Last.in.conn
          /\ h2In.unread = h2Last.in.unread
          /\ h2In.wu = h2Last.in.wu
          /\ h2Body[h2Last.id].bytes = h2Last.bodies[h2Last.id].bytes
          /\ h2Handler = h2Last.handlers

\* C28: when a handler returns before the client has sent END_STREAM the
\* server writes the end of the response, then RST_STREAM(NO_ERROR), and
\* the stream leaves the map (unless the connection ends first); later DATA
\* on the stream is not delivered, its length is returned to the
\* connection window and it is answered with RST_STREAM(STREAM_CLOSED); no
\* stream in the streams map is ever Closed.
C28_HandlerClose ==
    /\ []HandlerCloseSafe
    /\ \A id \in FlowStreams :
          (/\ h2Handler[id] = "returned"
           /\ id \in DOMAIN h2Streams
           /\ h2Streams[id] = "Open")
          ~> (id \notin DOMAIN h2Streams \/ h2GoAway # "")

\* the handler returned on an open stream, the response and the RST_STREAM
\* were written, and 3 bytes of DATA for the stream came after that
C28_Witness ==
    /\ h2Last.op = "DATA"
    /\ h2Last.n = 3
    /\ h2Hist[h2Last.id] = <<"Idle", "Open", "HalfClosedLocal", "Closed">>
    /\ h2Handler[h2Last.id] = "done"
    /\ h2Rst[h2Last.id] = "STREAM_CLOSED"
    /\ h2In.wuConn = 3
    /\ h2GoAway = ""

\* a call the table accepts: a known name, as many arguments as the table
\* has for it, each of the kind the table has at its position
Accepts(call) ==
    /\ call.Fun \in DOMAIN funcProtos
    /\ Len(call.Args) = Len(funcProtos[call.Fun])
    /\ \A x \in 1..Len(call.Args) : call.Args[x] = funcProtos[call.Fun][x]

\* the calls of an expression behind binary, unary and parenthesised nodes
RECURSIVE CallsOf(_)
CallsOf(n) ==
    IF n.type = "CallExpr" THEN <<n>>
    ELSE IF n.type = "BinaryExpr" THEN CallsOf(n.X) \o CallsOf(n.Y)
    ELSE IF n.type \in {"UnaryExpr", "ParenExpr"} THEN CallsOf(n.X)
    ELSE <<>>

\* C29: the semantic check accepts a primitive call if and only if its
\* name is in the primitive table, it has as many arguments as the table
\* says and each argument has the kind the table has at its position; an
\* unknown name, an arity mismatch and a kind mismatch each produce an
\* error, and every call behind binary, unary and parenthesised nodes is
\* checked: the errors are those of the calls the table does not accept,
\* one for each, in order.
C29_PrototypeCheck ==
    condChecked
    => LET calls == CallsOf(condExpr)
           refused == SelectSeq(calls, LAMBDA c : ~Accepts(c))
       IN  /\ Len(condErrs) = Len(refused)
           /\ \A x \in 1..Len(refused) :
                 /\ condErrs[x].Fun = refused[x].Fun
                 /\ condErrs[x].Args = refused[x].Args
                 /\ condErrs[x].err # ""
                 /\ refused[x].Fun \notin DOMAIN funcProtos
                    => condErrs[x].err = "not found"
                 /\ (/\ refused[x].Fun \in DOMAIN funcProtos
                     /\ Len(refused[x].Args) # Len(funcProtos[refused[x].Fun]))
                    => condErrs[x].err = "args len"
                 /\ (/\ refused[x].Fun \in DOMAIN funcProtos
                     /\ Len(refused[x].Args) = Len(funcProtos[refused[x].Fun]))
                    => condErrs[x].err = "arg type"

\* two calls behind a binary, a parenthesised and a unary node are both
\* refused: one for the kind of its second argument, one for its name
C29_Witness ==
    /\ condChecked
    /\ condExpr =
          BinaryExpr(ParenExpr(CallExpr("req_path_in", <<KindString, KindString>>)),
                     UnaryExpr(CallExpr("no_such_primitive", <<KindString>>)))
    /\ Len(condErrs) = 2
    /\ condErrs[1].err = "arg type"
    /\ condErrs[2].err = "not found"

\* the value a field of a section points to is one of those allowed; a nil
\* section or field holds no value
FieldIn(cluster, section, field, allowed) ==
    \/ cluster[section] = None
    \/ Deref(cluster[section])[field] = None
    \/ Deref(Deref(cluster[section])[field]) \in allowed

StrategyIn(cluster, allowed) ==
    \/ cluster.GslbBasic = None
    \/ FieldIn(Deref(cluster.GslbBasic), "HashConf", "HashStrategy", allowed)

\* BalanceMode compared without regard to case
BalanceModeKnown(cluster) ==
    \/ cluster.GslbBasic = None
    \/ Deref(cluster.GslbBasic).BalanceMode = None
    \/ ToUpper(Deref(Deref(cluster.GslbBasic).BalanceMode))
          \in {BalanceModeWrr, BalanceModeWlc}

StatusCodes == (0 .. 31) \cup (100 .. 599)

Enumerated(cluster) ==
    /\ FieldIn(cluster, "BackendConf", "RetryLevel", {RetryConnect, RetryGet})
    /\ StrategyIn(cluster, {ClientIdOnly, ClientIpOnly, ClientIdPreferred})
    /\ BalanceModeKnown(cluster)
    /\ FieldIn(cluster, "CheckConf", "Schem", {"http", "tcp"})
    /\ FieldIn(cluster, "CheckConf", "StatusCode", StatusCodes)

\* the clusters of a configuration that has a map of them
ClustersOf(conf) ==
    IF conf = None \/ Deref(conf).Config = None THEN {}
    ELSE {Deref(Deref(conf).Config)[n] : n \in DOMAIN Deref(Deref(conf).Config)}

\* C30: BfeClusterConfCheck returns an error for a configuration with a
\* cluster whose RetryLevel is not 0 or 1, whose HashStrategy is not one of
\* the three strategies, whose BalanceMode is not WRR or WLC whatever its
\* case, whose health-check Schem is not http or tcp, or whose health-check
\* StatusCode is outside 0..31 and 100..599; the configuration it accepts
\* holds only such values.
C30_EnumeratedOrError ==
    (clRuns > 0 /\ clErr = <<>>) =>
        /\ \A cluster \in ClustersOf(clPrev) : Enumerated(cluster)
        /\ \A cluster \in ClustersOf(clConf) : Enumerated(cluster)

\* the fields of a section that are not nil
Set(cluster, section, fields) ==
    /\ cluster[section] # None
    /\ \A f \in fields : Deref(cluster[section])[f] # None

\* every field a consumer of the configuration reads is there
NoNil(cluster) ==
    /\ Set(cluster, "BackendConf",
           {"TimeoutConnSrv", "TimeoutResponseHeader", "MaxIdleConnsPerHost",
            "RetryLevel"})
    /\ Set(cluster, "CheckConf",
           {"Schem", "FailNum", "SuccNum", "CheckTimeout", "CheckInterval"})
    /\ Set(cluster, "GslbBasic",
           {"CrossRetry", "RetryMax", "HashConf", "BalanceMode"})
    /\ Set(Deref(cluster.GslbBasic), "HashConf",
           {"HashStrategy", "SessionSticky"})
    /\ Set(cluster, "ClusterBasic",
           {"TimeoutReadClient", "TimeoutWriteClient",
            "TimeoutReadClientAgain", "ReqWriteBufferSize",
            "ReqFlushInterval", "ResFlushInterval", "CancelOnClientClose"})

\* a field that was nil before the check holds v after it
DefaultOf(before, after, section, field, v) ==
    Deref(before[section])[field] = None =>
        Deref(after[section])[field] = Some(v)

HashDefaults(before, after) ==
    IF before.HashConf = None
    THEN /\ Deref(after.HashConf).HashStrategy = Some(ClientIpOnly)
         /\ Deref(after.HashConf).SessionSticky = Some(FALSE)
    ELSE Deref(before.HashConf).SessionSticky = None =>
             Deref(after.HashConf).SessionSticky = Some(FALSE)

Defaults(before, after) ==
    /\ DefaultOf(before, after, "BackendConf", "MaxIdleConnsPerHost", 2)
    /\ DefaultOf(before, after, "BackendConf", "RetryLevel", RetryConnect)
    /\ DefaultOf(before, after, "CheckConf", "Schem", "http")
    /\ DefaultOf(before, after, "CheckConf", "StatusCode", 200)
    /\ DefaultOf(before, after, "CheckConf", "SuccNum", 1)
    /\ HashDefaults(Deref(before.GslbBasic), Deref(after.GslbBasic))
    /\ DefaultOf(before, after, "GslbBasic", "BalanceMode", BalanceModeWrr)
    /\ DefaultOf(before, after, "ClusterBasic", "ReqWriteBufferSize", 512)
    /\ DefaultOf(before, after, "ClusterBasic", "ReqFlushInterval", 0)
    /\ DefaultOf(before, after, "ClusterBasic", "ResFlushInterval", 20)
    /\ DefaultOf(before, after, "ClusterBasic", "CancelOnClientClose", FALSE)

\* the map of clusters of a configuration that was accepted
ConfigOf(conf) == Deref(Deref(conf).Config)

\* C40: in a configuration the check has accepted, every field a consumer
\* reads is non-nil in every cluster, the optional fields that were absent
\* hold their defaults, and a second check of it accepts it and changes
\* nothing.
C40_AcceptedIsComplete ==
    (clRuns > 0 /\ clErr = <<>>) =>
        /\ \A n \in DOMAIN ConfigOf(clConf) :
               /\ NoNil(ConfigOf(clConf)[n])
               /\ Defaults(ConfigOf(clPrev)[n], ConfigOf(clConf)[n])
        /\ \A order \in Orders(DOMAIN ConfigOf(clConf)) :
               BfeClusterConfCheck(clConf, order) = Checked(clConf)

\* the class of a status code: 0 for 1xx up to 4 for 5xx
InClass(code, k) == code >= (k + 1) * 100 /\ code <= (k + 1) * 100 + 99

\* C32: MatchStatusCode returns true exactly when the expected code is 0, or
\* is in 100..599 and is the code got, or is a mask in 1..31 with the bit of
\* the class of the code got set (no bit for a code below 100 or above 599);
\* its error is non-nil exactly when it returns false.
C32_MatchStatusCode ==
    fnRet # <<>> /\ DOMAIN fnArgs = {"get", "expect"} =>
        /\ fnRet[1].ok <=>
               \/ fnArgs.expect = 0
               \/ /\ fnArgs.expect >= 100 /\ fnArgs.expect <= 599
                  /\ fnArgs.get = fnArgs.expect
               \/ /\ fnArgs.expect >= 1 /\ fnArgs.expect <= 31
                  /\ \E k \in 0 .. 4 :
                         /\ InClass(fnArgs.get, k)
                         /\ (fnArgs.expect \div 2 ^ k) % 2 = 1
        /\ fnRet[1].nil <=> fnRet[1].ok

C32_Witness ==
    /\ fnRet # <<>> /\ DOMAIN fnArgs = {"get", "expect"}
    /\ fnArgs.get = 50 /\ fnArgs.expect = 2
    /\ ~fnRet[1].ok /\ ~fnRet[1].nil

\* C33: Setting.Valid returns the connection error FLOW_CONTROL_ERROR for an
\* INITIAL_WINDOW_SIZE above 2^31 - 1 and PROTOCOL_ERROR for a MAX_FRAME_SIZE
\* below 16384 or above 2^24 - 1; it accepts the values 2^31 - 1, 16384 and
\* 2^24 - 1, and a setting of an unknown ID whatever its value.
C33_SettingBounds ==
    fnRet # <<>> /\ DOMAIN fnArgs = {"ID", "Val"} =>
        /\ fnArgs.ID = 4 =>
               (fnRet[1] = "FLOW_CONTROL_ERROR" <=> fnArgs.Val.hi = 1)
               /\ (fnRet[1] = "" <=> fnArgs.Val.hi = 0)
        /\ fnArgs.ID = 5 =>
               (fnRet[1] = "PROTOCOL_ERROR" <=>
                    \/ fnArgs.Val.hi = 1
                    \/ fnArgs.Val.lo \notin 16384 .. 16777215)
               /\ (fnRet[1] = "" <=>
                      fnArgs.Val.hi = 0 /\ fnArgs.Val.lo \in 16384 .. 16777215)
        /\ fnArgs.ID \notin 1 .. 6 => fnRet[1] = ""

C33_Witness ==
    /\ fnRet # <<>> /\ DOMAIN fnArgs = {"ID", "Val"}
    /\ fnArgs.ID = 5 /\ fnArgs.Val = Uint32(0, 16777215 + 1)
    /\ fnRet[1] = "PROTOCOL_ERROR"

\* the token characters of RFC 7230: ! # $ % & ' * + - . ^ _ ` | ~, the
\* digits and the letters
TChar ==
    {33, 35, 36, 37, 38, 39, 42, 43, 45, 46, 94, 95, 96, 124, 126}
    \cup (48 .. 57) \cup (65 .. 90) \cup (97 .. 122)

\* C34: validHeaderFieldName(v) is true exactly when v is not empty and every
\* character of it is a token character that is not an uppercase letter;
\* validHeaderFieldValue(v) is false exactly when v holds a byte below 0x20
\* that is not the tab, or the byte 0x7f.
C34_HeaderFieldChars ==
    fnRet # <<>> /\ DOMAIN fnArgs = {"fn", "v"} =>
        /\ fnArgs.fn = "validHeaderFieldName" =>
               (fnRet[1] <=>
                    /\ fnArgs.v # <<>>
                    /\ \A k \in DOMAIN fnArgs.v :
                           fnArgs.v[k] \in TChar \ (65 .. 90))
        /\ fnArgs.fn = "validHeaderFieldValue" =>
               (~fnRet[1] <=>
                    \E k \in DOMAIN fnArgs.v :
                       \/ fnArgs.v[k] < 32 /\ fnArgs.v[k] # 9
                       \/ fnArgs.v[k] = 127)

C34_Witness ==
    /\ fnRet # <<>> /\ DOMAIN fnArgs = {"fn", "v"}
    /\ fnArgs.fn = "validHeaderFieldName"
    /\ fnArgs.v = <<97, 90>>
    /\ ~fnRet[1]

HopNames == {hopHeaders[k] : k \in DOMAIN hopHeaders}

\* C31: once the outbound request is built it has Proto HTTP/1.1 and Close
\* false and its header map has none of the hop-by-hop names; the inbound
\* request's Proto, Close and header map are as they were; and the outbound
\* header map is a new map exactly when the inbound one had a hop-by-hop
\* header, the inbound map itself otherwise.
C31_OutboundRequest ==
    fnRet # <<>> /\ DOMAIN fnArgs = {"heap", "req"} =>
        LET r == fnRet[1]
            inbound == fnArgs.heap[fnArgs.req.Header]
        IN  /\ r.outreq.Proto = "HTTP/1.1" /\ ~r.outreq.Close
            /\ DOMAIN r.heap[r.outreq.Header] \cap HopNames = {}
            /\ r.req = fnArgs.req
            /\ r.heap[r.req.Header] = inbound
            /\ r.outreq.Header # r.req.Header
                  <=> DOMAIN inbound \cap HopNames # {}

\* C35: clusterInvoke returns a response exactly when it returns no error, on
\* every path, so ServeHTTP never takes its success path (the deferred
\* res.Body.Close) with a nil response.
C35_InvokeCoherent ==
    /\ pc = "invoke_ret" => ((res # Nil) <=> (err = Nil))
    /\ ~panicked

\* C37: when clusterInvoke returns the response of a successful RoundTrip,
\* request.ErrCode is nil and request.ErrMsg is empty, whatever earlier
\* attempts left there, and request.Backend is the backend of the last
\* attempt.
C37_NoStaleError ==
    pc = "invoke_ret" /\ res = "respBackend" =>
        /\ errCode = Nil
        /\ errMsg = ""
        /\ reqBackend = transBackend

\* a success on the second backend after a failed attempt that recorded an
\* error
C37_Witness ==
    /\ pc = "invoke_ret" /\ res = "respBackend"
    /\ attempts >= 2 /\ lastErr = "ConnectError"
    /\ reqBackend = "b2"
    /\ errCode = Nil

\* C39: once a backend attempt has been made, request.Stat.BackendFirst is the
\* BackendStart of the first attempt (the attempts are timed 1, 2, ...), also
\* when iterations before it went to cross-sub-cluster rebalancing, and no
\* later attempt changes it.
C39_BackendFirstRecorded ==
    attempts >= 1 => stat.BackendFirst = 1

\* the rules of the request's product whose condition matches the request
MatchingRules ==
    IF rtRoute.Product \in DOMAIN rtTable.productRouteTable
    THEN LET rules == rtTable.productRouteTable[rtRoute.Product]
         IN  {k \in 1 .. Len(rules) : rules[k].cond \in rtReq.conds}
    ELSE {}

\* C38: LookupCluster returns ErrNoProductRule exactly when the product has no
\* entry in the product rule table and ErrNoMatchRule exactly when it has one
\* and no rule's condition matches; when a rule matches it returns nil with a
\* non-empty ClusterName; on an error ClusterName is empty and req.Route.Error
\* is the error returned.
C38_LookupErrorsExact ==
    rtPc = "cluster" =>
        LET has == rtRoute.Product \in DOMAIN rtTable.productRouteTable
        IN  /\ rtErr = "ErrNoProductRule" <=> ~has
            /\ rtErr = "ErrNoMatchRule" <=> (has /\ MatchingRules = {})
            /\ MatchingRules # {} => rtErr = "nil" /\ rtRoute.ClusterName # ""
            /\ rtErr # "nil" => rtRoute.ClusterName = "" /\ rtRoute.Error = rtErr

\* a goroutine is writing the map while another reads or writes it
MapRace ==
    \E p \in Goroutines, q \in Goroutines :
        p # q /\ tsProc[p].acc = "write" /\ tsProc[q].acc # "none"

\* C36: the transport map is written only by the goroutine that holds the
\* write lock of tsMu; no goroutine writes it while another reads or writes
\* it; and the getTransport calls for a cluster name between two
\* setTransports calls all return the same transport.
C36_MapOwned ==
    /\ \A p \in Goroutines : tsProc[p].acc = "write" => tsMu.w = p
    /\ ~MapRace
    /\ ~tsFatal
    /\ \A c \in TransportNames : Cardinality(tsHist.got[c]) <= 1

====
